---- MODULE Spec2Model ----
(***************************************************************************)
(* Verification model of the RP_SL1_Chat backend:                          *)
(*   - ToolDiscoveryService (tool-discovery.service.ts): the tool catalog  *)
(*     cache with its background timer,                                    *)
(*   - MCPService / MCPHttpService (mcp.service.ts): the provider client,  *)
(*   - ChatService.processMessage (chat.service.ts): the tool-call loop.   *)
(*                                                                         *)
(* Time is counted in minutes.  Instead of an absolute clock the model     *)
(* keeps the two differences the code computes from Date.now(): the age of *)
(* lastSync (saturating one minute above the TTL) and the time left until  *)
(* the setInterval callback is due.                                        *)
(*                                                                         *)
(* Every `await` on real I/O is a step boundary.  A chain of continuations *)
(* of already settled promises (return from syncTools -> return from       *)
(* syncToolsWithRetry -> tail of initialize -> tail of getToolsForAI) is   *)
(* run as one step.  JSON property order is kept by modelling `properties` *)
(* as a sequence of [key, obj, type] entries; the other members of a       *)
(* property (description, default, enum, items) are copied through         *)
(* unchanged by the code and are not represented.                          *)
(***************************************************************************)
EXTENDS Integers, Sequences, FiniteSets, TLC

\* ------------------------------------------------------------------------
\* Bounds of the model
\* ------------------------------------------------------------------------
NumCallers == 2

Callers == 1..NumCallers

\* ------------------------------------------------------------------------
\* Program constants (minutes)
\* ------------------------------------------------------------------------
CACHE_TTL_MS == 5
SYNC_INTERVAL_MS == 2
MAX_RETRY_ATTEMPTS == 3

\* lastSync: Date | null -- the null value of the age representation
NULL == -1

\* ------------------------------------------------------------------------
\* Tool schemas
\* ------------------------------------------------------------------------
Prop(k, t) == [key |-> k, obj |-> TRUE, type |-> t]

\* a property whose value is not an object (e.g. "string" or null)
ScalarProp(k) == [key |-> k, obj |-> FALSE, type |-> ""]

\* inputSchema that is undefined / null
NoSchema ==
  [present |-> FALSE, type |-> "", hasProps |-> FALSE, props |-> <<>>,
   reqIsArray |-> FALSE, required |-> <<>>]

\* {type: 'object', properties: {...}, required: [...]}
Schema(ps, req) ==
  [present |-> TRUE, type |-> "object", hasProps |-> TRUE, props |-> ps,
   reqIsArray |-> TRUE, required |-> req]

\* {type: 'object', properties: {...}} without a required member
SchemaNoReq(ps) ==
  [present |-> TRUE, type |-> "object", hasProps |-> TRUE, props |-> ps,
   reqIsArray |-> FALSE, required |-> <<>>]

\* {type: 'object'} without properties and required
SchemaBare ==
  [present |-> TRUE, type |-> "object", hasProps |-> FALSE, props |-> <<>>,
   reqIsArray |-> FALSE, required |-> <<>>]

Params(ps, req) == [type |-> "object", properties |-> ps, required |-> req]

Tool(n, d, s) == [name |-> n, description |-> d, inputSchema |-> s]

MapSeq(s, Op(_)) == [i \in 1..Len(s) |-> Op(s[i])]

\* ------------------------------------------------------------------------
\* The remote provider (black box): the tool lists its GET /tools may serve
\* ------------------------------------------------------------------------
RemoteTool(n, d, s) == [name |-> n, description |-> d, parameters |-> s]

\* {properties: "none", required: "deviceId"}: members of the wrong kind
SchemaWrongKinds ==
  [present |-> TRUE, type |-> "", hasProps |-> FALSE, props |-> <<>>,
   reqIsArray |-> FALSE, required |-> << "deviceId" >>]

CatalogA ==
  << RemoteTool("list_devices", "List devices", SchemaBare),
     RemoteTool("get_device", "Get device", SchemaWrongKinds) >>

CatalogB ==
  << RemoteTool("list_devices", "List devices",
                SchemaNoReq(<< Prop("limit", ""), ScalarProp("sortBy") >>)),
     RemoteTool("get_status", "Get status", NoSchema) >>

ProviderCatalogs == {CatalogA, CatalogB}

ProviderStates == {"up", "toolsDown", "down"}

\* ------------------------------------------------------------------------
\* MCPService
\* ------------------------------------------------------------------------
MCPFallbackTools ==
  << Tool("list_devices", "List all network devices managed by Restorepoint",
          SchemaNoReq(<< Prop("limit", "number"), Prop("offset", "number"),
                         Prop("sortBy", "string"), Prop("sortOrder", "string") >>)),
     Tool("get_device", "Get detailed information about a specific device",
          Schema(<< Prop("deviceId", "string"), Prop("includeConnections", "boolean") >>,
                 << "deviceId" >>)),
     Tool("create_device", "Add a new device to the Restorepoint management system",
          Schema(<< Prop("name", "string"), Prop("type", "string"),
                    Prop("credentials", "object"), Prop("ipAddress", "string"),
                    Prop("hostname", "string"), Prop("description", "string"),
                    Prop("enabled", "boolean") >>,
                 << "name", "type", "credentials" >>)),
     Tool("update_device", "Update an existing device configuration",
          Schema(<< Prop("deviceId", "string"), Prop("updates", "object") >>,
                 << "deviceId", "updates" >>)),
     Tool("delete_device", "Remove a device from the Restorepoint management system",
          Schema(<< Prop("deviceId", "string") >>, << "deviceId" >>)),
     Tool("list_backups", "List backup history and current status",
          SchemaNoReq(<< Prop("limit", "number"), Prop("offset", "number") >>)),
     Tool("get_backup", "Get detailed information about a specific backup",
          Schema(<< Prop("backupId", "string") >>, << "backupId" >>)),
     Tool("create_backup", "Start backup operation on specified devices",
          Schema(<< Prop("deviceIds", "array"), Prop("backupName", "string"),
                    Prop("backupType", "string") >>,
                 << "deviceIds" >>)),
     Tool("list_commands", "List command execution history",
          SchemaNoReq(<< Prop("limit", "number"), Prop("offset", "number") >>)),
     Tool("get_command", "Get details of a specific command execution",
          Schema(<< Prop("commandId", "string") >>, << "commandId" >>)),
     Tool("execute_command", "Execute command on devices",
          Schema(<< Prop("deviceIds", "array"), Prop("command", "string"),
                    Prop("timeout", "number") >>,
                 << "deviceIds", "command" >>)),
     Tool("get_task_status", "Check status of background tasks (backups, commands, etc.)",
          Schema(<< Prop("taskId", "string") >>, << "taskId" >>)),
     Tool("get_device_requirements",
          "Get comprehensive device creation requirements including supported types and examples",
          Schema(<< Prop("deviceType", "string") >>, << >>)),
     Tool("validate_device_request",
          "Validate device creation request before submission to create_device",
          Schema(<< Prop("request", "object") >>, << "request" >>)),
     Tool("get_device", "Get detailed information about a specific device",
          Schema(<< Prop("deviceId", "string"), Prop("includeConnections", "boolean") >>,
                 << "deviceId" >>)),
     Tool("get_status", "Get device and network status information",
          Schema(<< >>, << >>)) >>

\* loadAvailableTools: tools.map(tool => ({name, description, inputSchema: tool.parameters}))
ToMCPTool(t) == Tool(t.name, t.description, t.parameters)

\* MCPService.initialize on a service that is not yet initialized, run
\* against the provider state prov / provTools.  isInitialized is TRUE
\* afterwards on every path.
\*   - health check fails (MCPHttpService.initialize throws): rethrown,
\*     availableTools untouched;
\*   - GET /tools fails: loadAvailableTools stores its default tool list;
\*   - otherwise the provider's list is stored.
MCPInitialize(avail, prov, provTools) ==
  IF prov = "down" THEN [avail |-> avail, threw |-> TRUE]
  ELSE IF prov = "up" THEN [avail |-> MapSeq(provTools, ToMCPTool), threw |-> FALSE]
  ELSE [avail |-> MCPFallbackTools, threw |-> FALSE]

\* MCPService.getAvailableTools from the MCPService state (mInit, avail):
\* the list handed to the caller and the availableTools left behind.  An
\* error of initialize() is caught and answered with [], so the call never
\* throws.
GetAvailableTools(mInit, avail, prov, provTools) ==
  IF mInit THEN [tools |-> avail, avail |-> avail, threw |-> FALSE]
  ELSE LET i == MCPInitialize(avail, prov, provTools)
       IN [tools |-> IF i.threw THEN << >> ELSE i.avail,
           avail |-> i.avail, threw |-> FALSE]

\* ------------------------------------------------------------------------
\* ToolDiscoveryService: pure parts
\* ------------------------------------------------------------------------
NormalizeProp_KeepsUntyped(p) ==
  IF ~p.obj THEN Prop(p.key, "string") ELSE p

\* the body of the forEach over Object.keys(properties)
NormalizeProp(p) ==
  IF ~p.obj THEN Prop(p.key, "string")
  ELSE IF p.type = "" THEN [p EXCEPT !.type = "string"]
  ELSE p

normalizeToolParameters(inputSchema) ==
  IF ~inputSchema.present THEN Params(<< >>, << >>)
  ELSE LET properties == IF inputSchema.hasProps THEN inputSchema.props ELSE << >>
           required == IF inputSchema.reqIsArray THEN inputSchema.required ELSE << >>
       IN Params(MapSeq(properties, NormalizeProp), required)

transformMcpToolToAIFormat(mcpTool) ==
  [name |-> mcpTool.name, description |-> mcpTool.description,
   parameters |-> normalizeToolParameters(mcpTool.inputSchema)]

CachedTool(n, d, ps, req) ==
  [name |-> n, description |-> d, parameters |-> Params(ps, req)]

\* loadFallbackTools: the built-in catalog of the cache
FallbackTools ==
  << CachedTool("list_devices", "List all network devices managed by Restorepoint",
                << >>, << >>),
     CachedTool("create_device", "Add a new device to the Restorepoint management system",
                << Prop("name", "string"), Prop("type", "string"),
                   Prop("credentials", "object"), Prop("ipAddress", "string"),
                   Prop("hostname", "string"), Prop("description", "string"),
                   Prop("enabled", "boolean") >>,
                << "name", "type", "credentials" >>),
     CachedTool("get_device_requirements",
                "Get comprehensive device creation requirements including supported types and examples",
                << Prop("deviceType", "string") >>, << >>) >>

ToolNames(ts) == MapSeq(ts, LAMBDA t : t.name)

\* ------------------------------------------------------------------------
\* State
\* ------------------------------------------------------------------------
VARIABLES
  tools,            \* ToolDiscoveryService.tools
  lastSync,         \* age of ToolDiscoveryService.lastSync in minutes, NULL if null
  isInitialized,    \* ToolDiscoveryService.isInitialized
  syncInProgress,   \* ToolDiscoveryService.syncInProgress
  syncInterval,     \* ToolDiscoveryService.syncInterval is set (not null)
  timerDue,         \* minutes until the setInterval callback is due
  liveTimers,       \* interval timers created by setInterval and not cleared
  mcpInitialized,   \* MCPService.isInitialized
  availableTools,   \* MCPService.availableTools
  provider,         \* reachability of the remote provider
  providerTools,    \* the tool list the provider serves
  op,               \* per caller: the cache operation it is running
  pc,               \* per caller: where that operation is suspended
  attempt,          \* per caller: loop variable of syncToolsWithRetry
  timerSync,        \* syncTools runs started by the interval callback, in flight
  readSync,         \* syncTools runs started by a stale read, in flight
  returned,         \* value returned by the latest getToolsForAI call
  shutDown          \* history: shutdown() ran and initialize() was not called since

cacheVars == << tools, lastSync, isInitialized, syncInProgress, syncInterval,
                timerDue, liveTimers, timerSync, readSync >>
mcpVars == << mcpInitialized, availableTools >>
providerVars == << provider, providerTools >>
callerVars == << op, pc, attempt, returned, shutDown >>

VARIABLES
  zaiInitialized,   \* ZAIService.isInitialized
  failingTools,     \* provider: tools whose execution it answers with success=false
  rpc,              \* processMessage: where the request is suspended
  inLoop,           \* processMessage: control is inside the do-while loop
  request,          \* processMessage: the ChatRequest
  enhancedMessage,  \* processMessage: enhancedMessage
  updatedHistory,   \* processMessage: updatedHistory
  toolsUsed,        \* processMessage: toolsUsed
  executionResults, \* processMessage: executionResults
  finalResponse,    \* processMessage: finalResponse
  executionRound,   \* processMessage: executionRound
  toolCalls,        \* processMessage: tool_calls of the response being executed
  idx,              \* processMessage: position of the for-loop in toolCalls
  lastSent,         \* body of the latest POST /chat/completions
  modelCalls,       \* history: POSTs issued for this request
  execPhases,       \* history: for-loops over tool_calls entered for this request
  responses,        \* history: number of tool calls in each model response
  errorMessage,     \* message of the error sendMessage threw, "" if none
  viaRoute,         \* the request came in through POST /api/chat
  httpReply,        \* the response the chat route sent last, "none" if none
  frames            \* two processMessage calls in flight at once: the locals of each

orchestratorVars == << rpc, inLoop, request, enhancedMessage, updatedHistory,
                       toolsUsed, executionResults, finalResponse,
                       executionRound, toolCalls, idx, lastSent, modelCalls,
                       execPhases, responses, errorMessage >>
routeVars == << viaRoute, httpReply >>
chatVars == << zaiInitialized, failingTools, orchestratorVars, routeVars, frames >>

NoRequest == [message |-> << >>, conversationHistory |-> << >>]
NoMessage == [text |-> << >>, ctx |-> << >>]
NothingSent == [messages |-> << >>, tools |-> << >>]

\* the two invocations of processMessage that overlap
Slots == {"a", "b"}

\* the locals of an invocation that has not begun
NoFrame ==
  [rpc |-> "idle", inLoop |-> FALSE, request |-> NoRequest,
   updatedHistory |-> << >>, toolsUsed |-> << >>, executionResults |-> << >>,
   finalResponse |-> << >>, toolCalls |-> << >>, idx |-> 0,
   lastSent |-> NothingSent, modelCalls |-> 0]

\* no request is being processed: the locals of processMessage do not exist
NoRequestInProgress ==
  /\ rpc = "idle"
  /\ inLoop = FALSE
  /\ request = NoRequest
  /\ enhancedMessage = NoMessage
  /\ updatedHistory = << >>
  /\ toolsUsed = << >>
  /\ executionResults = << >>
  /\ finalResponse = << >>
  /\ executionRound = 1
  /\ toolCalls = << >>
  /\ idx = 0
  /\ lastSent = NothingSent
  /\ modelCalls = 0
  /\ execPhases = 0
  /\ responses = << >>
  /\ errorMessage = ""
  /\ viaRoute = FALSE

\* The fields of the cache object as one value, so that the statements of a
\* handler can be applied one after the other.
Cache ==
  [tools |-> tools, lastSync |-> lastSync, isInitialized |-> isInitialized,
   syncInProgress |-> syncInProgress, syncInterval |-> syncInterval,
   timerDue |-> timerDue, liveTimers |-> liveTimers, readSync |-> readSync]

SetCache(c) ==
  /\ tools' = c.tools
  /\ lastSync' = c.lastSync
  /\ isInitialized' = c.isInitialized
  /\ syncInProgress' = c.syncInProgress
  /\ syncInterval' = c.syncInterval
  /\ timerDue' = c.timerDue
  /\ liveTimers' = c.liveTimers
  /\ readSync' = c.readSync

\* ------------------------------------------------------------------------
\* ToolDiscoveryService: statements on the cache object
\* ------------------------------------------------------------------------
isCacheStale_AgeOnly(c) ==
  IF c.lastSync = NULL THEN TRUE ELSE c.lastSync > CACHE_TTL_MS

isCacheStale(c) ==
  IF c.lastSync = NULL \/ Len(c.tools) = 0 THEN TRUE
  ELSE c.lastSync > CACHE_TTL_MS

startPeriodicSync_NoClear(c) ==
  [c EXCEPT !.syncInterval = TRUE, !.timerDue = SYNC_INTERVAL_MS,
            !.liveTimers = @ + 1]

\* clearInterval on the old handle, then a fresh setInterval
startPeriodicSync(c) ==
  [c EXCEPT !.syncInterval = TRUE, !.timerDue = SYNC_INTERVAL_MS,
            !.liveTimers = (IF c.syncInterval THEN @ - 1 ELSE @) + 1]

syncToolsProceeds_NoGuard(c) == TRUE

\* syncTools up to its await: TRUE iff this run goes on to the provider
\* rather than returning at the in-progress check
syncToolsProceeds(c) == ~c.syncInProgress

syncToolsSucceed_PublishesFirstToolOnly(c, mcpTools) ==
  [c EXCEPT !.tools = MapSeq(SubSeq(mcpTools, 1, IF Len(mcpTools) > 0 THEN 1 ELSE 0),
                             transformMcpToolToAIFormat),
            !.lastSync = 0,
            !.syncInProgress = FALSE]

syncToolsSucceed_LeavesFlagSet(c, mcpTools) ==
  [c EXCEPT !.tools = MapSeq(mcpTools, transformMcpToolToAIFormat),
            !.lastSync = 0]

\* try-body of syncTools after the await, and its finally
syncToolsSucceed(c, mcpTools) ==
  [c EXCEPT !.tools = MapSeq(mcpTools, transformMcpToolToAIFormat),
            !.lastSync = 0,
            !.syncInProgress = FALSE]

\* catch/finally of syncTools when the try-body threw
syncToolsFail(c) == [c EXCEPT !.syncInProgress = FALSE]

loadFallbackTools(c) == [c EXCEPT !.tools = FallbackTools, !.lastSync = 0]

initializeTail_NoTimer(c) == [c EXCEPT !.isInitialized = TRUE, !.lastSync = 0]

\* initialize after `await this.syncToolsWithRetry()`
initializeTail(c) ==
  [startPeriodicSync(c) EXCEPT !.isInitialized = TRUE, !.lastSync = 0]

getToolsTail_NoInFlightCheck(c) ==
  IF isCacheStale(c)
  THEN [c EXCEPT !.syncInProgress = TRUE, !.readSync = @ + 1]
  ELSE c

\* getToolsForAI after the initialized check: the stale check with the
\* fire-and-forget syncToolsAsync() (which runs syncTools up to its await)
getToolsTail(c) ==
  IF isCacheStale(c) /\ ~c.syncInProgress /\ syncToolsProceeds(c)
  THEN [c EXCEPT !.syncInProgress = TRUE, !.readSync = @ + 1]
  ELSE c

\* what remains of operation o once syncToolsWithRetry has returned
OpTail(o, c) ==
  IF o = "init" THEN initializeTail(c)
  ELSE IF o = "get" THEN getToolsTail(initializeTail(c))
  ELSE c

\* getServiceStatus().syncStatus
syncStatus(c) ==
  IF c.syncInProgress THEN "syncing"
  ELSE IF isCacheStale(c) THEN "stale"
  ELSE IF Len(c.tools) = 0 THEN "error"
  ELSE "healthy"

\* getServiceStatus(): lastSync as its age, nextSyncIn in minutes
getServiceStatus(c) ==
  [isInitialized |-> c.isInitialized,
   lastSync |-> c.lastSync,
   toolCount |-> Len(c.tools),
   syncStatus |-> syncStatus(c),
   mcpConnected |-> c.lastSync # NULL,
   nextSyncIn |-> IF c.lastSync = NULL THEN 0
                  ELSE IF CACHE_TTL_MS - c.lastSync > 0
                  THEN CACHE_TTL_MS - c.lastSync ELSE 0]

FetchesInFlight ==
  Cardinality({p \in Callers : pc[p] = "fetch"}) + timerSync + readSync

\* ------------------------------------------------------------------------
\* Initial state: the singletons right after module load
\* ------------------------------------------------------------------------
CacheInit ==
  /\ tools = << >>
  /\ lastSync = NULL
  /\ isInitialized = FALSE
  /\ syncInProgress = FALSE
  /\ syncInterval = FALSE
  /\ timerDue = 0
  /\ liveTimers = 0
  /\ timerSync = 0
  /\ readSync = 0
  /\ mcpInitialized = FALSE
  /\ availableTools = << >>
  /\ provider \in ProviderStates
  /\ providerTools \in ProviderCatalogs
  /\ op = [p \in Callers |-> "none"]
  /\ pc = [p \in Callers |-> "idle"]
  /\ attempt = [p \in Callers |-> 0]
  /\ returned = << >>
  /\ shutDown = FALSE

Init ==
  /\ CacheInit
  /\ zaiInitialized = FALSE
  /\ failingTools = {}
  /\ httpReply = "none"
  /\ frames = [s \in Slots |-> NoFrame]
  /\ NoRequestInProgress

\* ------------------------------------------------------------------------
\* Cache operations issued by callers
\* ------------------------------------------------------------------------
\* syncToolsWithRetry entered by caller p running operation o: the first
\* loop iteration up to the await inside syncTools
EnterSyncWithRetry(p, o) ==
  /\ op' = [op EXCEPT ![p] = o]
  /\ attempt' = [attempt EXCEPT ![p] = 1]
  /\ shutDown' = IF o = "init" THEN FALSE ELSE shutDown
  /\ IF syncToolsProceeds(Cache)
     THEN /\ pc' = [pc EXCEPT ![p] = "fetch"]
          /\ SetCache([Cache EXCEPT !.syncInProgress = TRUE])
     ELSE /\ pc' = [pc EXCEPT ![p] = "joined"]
          /\ SetCache(Cache)
  /\ UNCHANGED << timerSync, returned, mcpVars, providerVars, chatVars >>

initialize(p) ==
  /\ pc[p] = "idle"
  /\ IF isInitialized
     THEN /\ shutDown' = FALSE
          /\ UNCHANGED << cacheVars, op, pc, attempt, returned, mcpVars, providerVars, chatVars >>
     ELSE EnterSyncWithRetry(p, "init")

getToolsForAI_AwaitsRefresh(p) ==
  /\ pc[p] = "idle"
  /\ IF ~isInitialized \/ (isCacheStale(Cache) /\ ~syncInProgress)
     THEN EnterSyncWithRetry(p, "get")
     ELSE /\ returned' = tools
          /\ UNCHANGED << cacheVars, op, pc, attempt, shutDown, mcpVars, providerVars, chatVars >>

getToolsForAIResult_Rethrows(c, bodyThrew) ==
  [threw |-> bodyThrew, tools |-> c.tools]

\* what getToolsForAI hands to its caller from the cache object c: the
\* copy of the snapshot at the end of the try-body, or the copy its catch
\* returns when the body threw
getToolsForAIResult(c, bodyThrew) ==
  [threw |-> FALSE, tools |-> c.tools]

getToolsForAI(p) ==
  /\ pc[p] = "idle"
  /\ IF ~isInitialized
     THEN EnterSyncWithRetry(p, "get")
     ELSE /\ SetCache(getToolsTail(Cache))
          /\ returned' = getToolsForAIResult(Cache, FALSE).tools
          /\ UNCHANGED << op, pc, attempt, shutDown, timerSync, mcpVars, providerVars, chatVars >>

forceSync_OnlyWhenStale(p) ==
  /\ pc[p] = "idle"
  /\ IF isCacheStale(Cache)
     THEN EnterSyncWithRetry(p, "force")
     ELSE UNCHANGED << cacheVars, callerVars, mcpVars, providerVars, chatVars >>

forceSync(p) ==
  /\ pc[p] = "idle"
  /\ EnterSyncWithRetry(p, "force")

shutdown_KeepsTimer ==
  /\ SetCache([Cache EXCEPT !.isInitialized = FALSE,
                            !.tools = << >>, !.lastSync = NULL])
  /\ shutDown' = TRUE
  /\ UNCHANGED << timerSync, op, pc, attempt, returned, mcpVars, providerVars, chatVars >>

shutdown ==
  /\ SetCache([Cache EXCEPT !.syncInterval = FALSE, !.timerDue = 0,
                            !.liveTimers = IF syncInterval THEN @ - 1 ELSE @,
                            !.isInitialized = FALSE,
                            !.tools = << >>, !.lastSync = NULL])
  /\ shutDown' = TRUE
  /\ UNCHANGED << timerSync, op, pc, attempt, returned, mcpVars, providerVars, chatVars >>

\* caller p leaves its operation with the cache in state c
Return(p, c) ==
  /\ SetCache(c)
  /\ op' = [op EXCEPT ![p] = "none"]
  /\ pc' = [pc EXCEPT ![p] = "idle"]
  /\ attempt' = [attempt EXCEPT ![p] = 0]
  /\ returned' = IF op[p] = "get" THEN getToolsForAIResult(c, FALSE).tools
                 ELSE returned
  /\ UNCHANGED shutDown

AfterAttempt_WaitsAfterLast(threw, attemptNo) ==
  IF ~threw THEN "return"
  ELSE IF attemptNo <= MAX_RETRY_ATTEMPTS THEN "delay"
  ELSE "fallback"

\* the body of the for-loop of syncToolsWithRetry once `await syncTools()`
\* of iteration attemptNo has settled: return, wait before the next
\* iteration, or leave the loop for loadFallbackTools
AfterAttempt(threw, attemptNo) ==
  IF ~threw THEN "return"
  ELSE IF attemptNo < MAX_RETRY_ATTEMPTS THEN "delay"
  ELSE "fallback"

\* `await mcpService.getAvailableTools()` of caller p's syncTools settles
SyncToolsComplete(p) ==
  /\ pc[p] = "fetch"
  /\ LET r == GetAvailableTools(mcpInitialized, availableTools, provider, providerTools)
         next == AfterAttempt(r.threw, attempt[p])
     IN /\ mcpInitialized' = TRUE
        /\ availableTools' = r.avail
        /\ IF next = "return"
           THEN Return(p, OpTail(op[p], syncToolsSucceed(Cache, r.tools)))
           ELSE IF next = "delay"
           THEN /\ SetCache(syncToolsFail(Cache))
                /\ pc' = [pc EXCEPT ![p] = "delay"]
                /\ UNCHANGED << op, attempt, returned, shutDown >>
           ELSE Return(p, OpTail(op[p], loadFallbackTools(syncToolsFail(Cache))))
  /\ UNCHANGED << timerSync, providerVars, chatVars >>

\* caller p resumes: either its syncTools call returned at the in-progress
\* check (syncToolsWithRetry then returns as on success), or its retry
\* delay is over and the next loop iteration calls syncTools again
Resume(p) ==
  /\ pc[p] \in {"joined", "delay"}
  /\ IF pc[p] = "joined"
     THEN Return(p, OpTail(op[p], Cache))
     ELSE /\ attempt' = [attempt EXCEPT ![p] = @ + 1]
          /\ IF syncToolsProceeds(Cache)
             THEN /\ pc' = [pc EXCEPT ![p] = "fetch"]
                  /\ SetCache([Cache EXCEPT !.syncInProgress = TRUE])
             ELSE /\ pc' = [pc EXCEPT ![p] = "joined"]
                  /\ SetCache(Cache)
          /\ UNCHANGED << op, returned, shutDown >>
  /\ UNCHANGED << timerSync, mcpVars, providerVars, chatVars >>

\* ------------------------------------------------------------------------
\* Background refresh
\* ------------------------------------------------------------------------
\* the setInterval callback: if (!syncInProgress) await syncToolsAsync()
TimerFire ==
  /\ syncInterval
  /\ timerDue = 0
  /\ IF ~syncInProgress /\ syncToolsProceeds(Cache)
     THEN /\ SetCache([Cache EXCEPT !.timerDue = SYNC_INTERVAL_MS,
                                    !.syncInProgress = TRUE])
          /\ timerSync' = timerSync + 1
     ELSE /\ SetCache([Cache EXCEPT !.timerDue = SYNC_INTERVAL_MS])
          /\ UNCHANGED timerSync
  /\ UNCHANGED << callerVars, mcpVars, providerVars, chatVars >>

\* syncTools inside syncToolsAsync settles on the cache object c; a failure
\* is logged and dropped
BackgroundSyncSettle(c) ==
  LET r == GetAvailableTools(mcpInitialized, availableTools, provider, providerTools)
  IN /\ mcpInitialized' = TRUE
     /\ availableTools' = r.avail
     /\ IF ~r.threw
        THEN SetCache(syncToolsSucceed(c, r.tools))
        ELSE SetCache(syncToolsFail(c))
     /\ UNCHANGED << callerVars, providerVars, chatVars >>

TimerSyncComplete ==
  /\ timerSync > 0
  /\ timerSync' = timerSync - 1
  /\ BackgroundSyncSettle(Cache)

ReadSyncComplete ==
  /\ readSync > 0
  /\ BackgroundSyncSettle([Cache EXCEPT !.readSync = @ - 1])
  /\ UNCHANGED timerSync

\* ------------------------------------------------------------------------
\* Environment: time and the remote provider
\* ------------------------------------------------------------------------
\* one minute passes; the interval callback runs when it is due
Tick ==
  /\ syncInterval => timerDue > 0
  /\ lastSync' = IF lastSync = NULL \/ lastSync > CACHE_TTL_MS
                 THEN lastSync ELSE lastSync + 1
  /\ timerDue' = IF syncInterval THEN timerDue - 1 ELSE timerDue
  /\ UNCHANGED << tools, isInitialized, syncInProgress, syncInterval, liveTimers,
                  timerSync, readSync, callerVars, mcpVars, providerVars, chatVars >>

ProviderSwitch ==
  /\ provider' \in ProviderStates \ {provider}
  /\ UNCHANGED << providerTools, cacheVars, callerVars, mcpVars, chatVars >>

ProviderPublish ==
  /\ providerTools' \in ProviderCatalogs \ {providerTools}
  /\ UNCHANGED << provider, cacheVars, callerVars, mcpVars, chatVars >>

vars == << cacheVars, mcpVars, providerVars, callerVars, chatVars >>

Next ==
  \/ \E p \in Callers : initialize(p)
  \/ \E p \in Callers : getToolsForAI(p)
  \/ \E p \in Callers : forceSync(p)
  \/ \E p \in Callers : SyncToolsComplete(p)
  \/ \E p \in Callers : Resume(p)
  \/ shutdown
  \/ TimerFire
  \/ TimerSyncComplete
  \/ ReadSyncComplete
  \/ Tick
  \/ ProviderSwitch
  \/ ProviderPublish

Spec == Init /\ [][Next]_vars

TypeOK ==
  /\ lastSync \in NULL..(CACHE_TTL_MS + 1)
  /\ timerDue \in 0..SYNC_INTERVAL_MS
  /\ isInitialized \in BOOLEAN /\ syncInProgress \in BOOLEAN
  /\ provider \in ProviderStates

\* The scheduling the runtime guarantees: time passes, a due interval
\* callback runs, and every pending promise is eventually settled.
FairSpec ==
  /\ Spec
  /\ WF_vars(Tick)
  /\ WF_vars(TimerFire)
  /\ WF_vars(TimerSyncComplete)
  /\ WF_vars(ReadSyncComplete)
  /\ \A p \in Callers : WF_vars(SyncToolsComplete(p)) /\ WF_vars(Resume(p))

\* the snapshot the cache publishes for a provider tool list
PublishedFor(provTools) ==
  MapSeq(MapSeq(provTools, ToMCPTool), transformMcpToolToAIFormat)

\* ========================================================================
\* Tool catalog cache: properties
\* ========================================================================

\* C1 (as claimed): when a sync-with-retry of a caller ends and the provider
\* could not be reached by it, the snapshot is exactly the built-in fallback
\* catalog, the status is not "error" and lastSync is set.
C1_FallbackAfterFailedSync ==
  [][\A p \in Callers :
       (pc[p] = "fetch" /\ op'[p] = "none" /\ ~mcpInitialized /\ provider # "up")
         => /\ tools' = FallbackTools
            /\ syncStatus(Cache') # "error"
            /\ lastSync' # NULL]_vars

\* C2: at most one call of mcpService.getAvailableTools issued by the cache
\* is outstanding at any time, whoever asked for the sync (initialize,
\* forceSync, the interval callback, a stale read); a sync asked for while
\* one is outstanding starts none.
C2_SingleFetchInFlight == FetchesInFlight <= 1

C2_Witness ==
  \E p, q \in Callers : pc[p] = "fetch" /\ pc[q] = "joined" /\ op[q] = "force"

\* C5: on an initialized cache never more than one refresh started by a
\* stale read is outstanding, a read arriving while any sync is outstanding
\* starts none, and every read returns the snapshot held before it and
\* leaves that snapshot in place.
C5_StaleReadSingleRefresh ==
  [][/\ readSync' <= 1
     /\ \A p \in Callers :
          (isInitialized /\ getToolsForAI(p))
            => /\ returned' = tools
               /\ tools' = tools
               /\ (syncInProgress => FetchesInFlight' = FetchesInFlight)]_vars

C5_Witness ==
  /\ isInitialized
  /\ isCacheStale(Cache)
  /\ readSync = 1
  /\ returned = tools

C7_ReadAfterShutdownIsEmpty ==
  [][\A p \in Callers :
       (shutDown /\ getToolsForAI(p))
         => /\ returned' = << >>
            /\ pc'[p] = "idle"
            /\ FetchesInFlight' = FetchesInFlight]_vars

\* C7 (amended): shutdown() clears the timer handle, the snapshot, lastSync
\* and the initialized mark; a later getToolsForAI call on the cache that is
\* not initialized runs initialize() itself, and when it returns the cache
\* is initialized, the timer runs again and the call returns the snapshot
\* the cache then holds.
C7_ShutdownThenLazyReinit ==
  [][/\ shutdown => /\ ~syncInterval'
                    /\ tools' = << >>
                    /\ lastSync' = NULL
                    /\ ~isInitialized'
     /\ \A p \in Callers :
          /\ (~isInitialized /\ getToolsForAI(p))
               => (op'[p] = "get" /\ pc'[p] \in {"fetch", "joined"})
          /\ (op[p] = "get" /\ op'[p] = "none")
               => (isInitialized' /\ syncInterval' /\ returned' = tools')]_vars

C7_Witness ==
  /\ shutDown
  /\ \E p \in Callers : op[p] = "get" /\ pc[p] = "fetch"

\* C8: an initialize() call that had to initialize returns with the cache
\* marked initialized and the timer running, also when the provider is
\* down; a call on an initialized cache changes nothing.
C8_InitializeContract ==
  [][\A p \in Callers :
       /\ (op[p] = "init" /\ op'[p] = "none")
            => (isInitialized' /\ syncInterval' /\ timerDue' = SYNC_INTERVAL_MS)
       /\ (isInitialized /\ initialize(p))
            => UNCHANGED << cacheVars, mcpVars, op, pc, attempt, returned >>]_vars

C8_Witness ==
  /\ isInitialized
  /\ syncInterval
  /\ provider = "down"
  /\ Len(tools) = 0
  /\ Len(availableTools) = 0
  /\ \A p \in Callers : op[p] = "none"

\* C9 (as claimed): if from some point on the provider stays reachable and
\* serves one tool list while the refresh timer is running, the cache
\* eventually publishes the normalized form of that list.
C9_RefreshFollowsProvider ==
  \A cat \in ProviderCatalogs :
    <>[](provider = "up" /\ providerTools = cat /\ syncInterval)
      => <>(tools = PublishedFor(cat))

\* ========================================================================
\* Chat orchestrator (chat.service.ts, zai.service.ts)
\* ========================================================================
\* A message is its sequence of words.  What the regular expressions and
\* the String methods make of a word is tabulated for the words in use; a
\* keyword that spans two words is not found.
MaxRounds == 2
MaxCalls == 3

\* String.prototype.toLowerCase
Lower(w) ==
  CASE w = "Core-1" -> "core-1"
    [] w = "SI-1238VA" -> "si-1238va"
    [] w = "Edge" -> "edge"
    [] w = "Cisco IOS" -> "cisco ios"
    [] w = "Palo Alto" -> "palo alto"
    [] OTHER -> w

ProperSubstrings ==
  { <<"devices", "device">>, <<"cisco ios", "cisco">>, <<"cisco ios", "ios">>,
    <<"palo alto", "palo">>, <<"172.31.13.115", "172.31.13.11">>,
    <<"172.31.13.115", "31.13.115">> }

\* String.prototype.includes: the empty string is included in every string
Includes(a, b) == b = "" \/ a = b \/ <<a, b>> \in ProperSubstrings

RECURSIVE Dedupe(_)
\* [...new Set(xs)]: first occurrences, in order
Dedupe(xs) ==
  IF xs = << >> THEN << >>
  ELSE LET init == Dedupe(SubSeq(xs, 1, Len(xs) - 1))
           x == xs[Len(xs)]
       IN IF \E i \in 1..Len(init) : init[i] = x THEN init ELSE Append(init, x)

RECURSIVE Flatten(_)
Flatten(ss) == IF ss = << >> THEN << >> ELSE Head(ss) \o Flatten(Tail(ss))

\* for (const x of xs) out.push(...F(x))
FlatMap(xs, F(_)) == Flatten(MapSeq(xs, F))

MessageIncludes(message, keyword) ==
  \E i \in 1..Len(message) : Includes(Lower(message[i]), keyword)

TopicKeywords ==
  << "device", "backup", "command", "network", "restorepoint", "list", "show",
     "run", "execute", "status", "create", "update", "delete", "monitor",
     "check", "start", "stop", "configure", "configuration", "settings",
     "manage", "management" >>

validateTopic(message) ==
  \E i \in 1..Len(TopicKeywords) : MessageIncludes(message, TopicKeywords[i])

TopicRefusal == << 0 >>

\* words that alone are longer than the 500 characters a message may have
LongWords == {"<a word of 501 characters>"}

\* keywords of the topic rule of the request schema
SchemaTopicKeywords == SubSeq(TopicKeywords, 1, 17)

\* messageSchema of the validateMessage middleware applied to `message`:
\* "ok" or the type of the first failed rule
validateMessage(message) ==
  IF message = << >> THEN "string.empty"
  ELSE IF \E i \in 1..Len(message) : message[i] \in LongWords THEN "string.max"
  ELSE IF ~\E i \in 1..Len(SchemaTopicKeywords) :
              MessageIncludes(message, SchemaTopicKeywords[i])
  THEN "custom.invalidTopic"
  ELSE "ok"

\* error.message of what sendMessage throws
SendMessageErrors ==
  { "Invalid z.ai API key", "z.ai API rate limit exceeded",
    "z.ai API server error", "z.ai service failed" }

IPWords == {"172.31.13.115", "172.31.13.11"}
QuotedWords == {"\"Edge\""}
UpperPatternWords == {"SI-1238VA"}
NamePatternWords == {"SI-1238VA", "Core-1"}

Unquote(w) == IF w = "\"Edge\"" THEN "Edge" ELSE w

extractIPAddresses(message) ==
  Dedupe(SelectSeq(message, LAMBDA w : w \in IPWords))

extractDeviceNames(message) ==
  Dedupe(MapSeq(SelectSeq(message, LAMBDA w : w \in QuotedWords), Unquote)
         \o SelectSeq(message, LAMBDA w : w \in UpperPatternWords)
         \o SelectSeq(message, LAMBDA w : w \in NamePatternWords))

DeviceKeywords ==
  << "cisco", "palo alto", "juniper", "aruba", "fortinet", "router", "switch",
     "firewall", "controller", "ios", "junos", "catos", "palo" >>

extractKeywords(message) ==
  SelectSeq(DeviceKeywords, LAMBDA k : MessageIncludes(message, Lower(k)))

\* the device list held by the provider
Devices ==
  << [ID |-> 1, Name |-> "Core-1", Address |-> "172.31.13.115",
      PluginName |-> "Cisco IOS", AssetFields |-> << >>],
     [ID |-> 2, Name |-> "Edge", Address |-> "",
      PluginName |-> "Palo Alto", AssetFields |-> << "firewall" >>] >>

\* shapes of the `data` member of a list_devices answer
ListShapes == {"data.data.data", "array", "data.data", "data.result", "object", "none"}

\* the array resolveDeviceIdentifiers takes out of an answer of that shape;
\* << >> with found = FALSE where it gives up
UnwrapDevices(shape, devices) ==
  IF shape \in {"data.data.data", "array", "data.data", "data.result"}
  THEN [found |-> TRUE, allDevices |-> devices]
  ELSE [found |-> FALSE, allDevices |-> << >>]

MatchIP(allDevices, ip) ==
  SelectSeq(allDevices, LAMBDA d : d.Address = ip \/ Includes(d.Address, ip)
                                   \/ Includes(ip, d.Address))

MatchName(allDevices, name) ==
  SelectSeq(allDevices, LAMBDA d : \/ Includes(Lower(d.Name), Lower(name))
                                   \/ Includes(Lower(name), Lower(d.Name)))

MatchKeyword(allDevices, keyword) ==
  SelectSeq(allDevices,
            LAMBDA d : \/ Includes(Lower(d.PluginName), Lower(keyword))
                       \/ \E i \in 1..Len(d.AssetFields) :
                            Includes(Lower(d.AssetFields[i]), Lower(keyword)))

RECURSIVE UniqueByID(_)
\* filter(index === self.findIndex(d => d.ID === device.ID))
UniqueByID(ds) ==
  IF ds = << >> THEN << >>
  ELSE LET init == UniqueByID(SubSeq(ds, 1, Len(ds) - 1))
           x == ds[Len(ds)]
       IN IF \E i \in 1..Len(init) : init[i].ID = x.ID THEN init
          ELSE Append(init, x)

MatchDevices_KeywordsFirst(message, allDevices) ==
  UniqueByID(
    FlatMap(extractKeywords(message), LAMBDA k : MatchKeyword(allDevices, k))
    \o FlatMap(extractDeviceNames(message), LAMBDA n : MatchName(allDevices, n))
    \o FlatMap(extractIPAddresses(message), LAMBDA ip : MatchIP(allDevices, ip)))

\* the three matching loops, then the removal of duplicates
MatchDevices(message, allDevices) ==
  UniqueByID(
    FlatMap(extractIPAddresses(message), LAMBDA ip : MatchIP(allDevices, ip))
    \o FlatMap(extractDeviceNames(message), LAMBDA n : MatchName(allDevices, n))
    \o FlatMap(extractKeywords(message), LAMBDA k : MatchKeyword(allDevices, k)))

\* one line of the "Device Matches Found" block
ContextLine(d) ==
  [Name |-> d.Name, ID |-> d.ID, Address |-> d.Address, PluginName |-> d.PluginName]

HasIdentifiers(message) ==
  \/ Len(extractIPAddresses(message)) # 0
  \/ Len(extractDeviceNames(message)) # 0
  \/ Len(extractKeywords(message)) # 0

\* ------------------------------------------------------------------------
\* Conversation turns, tool calls, tool results
\* ------------------------------------------------------------------------
\* McpResult: success, error.code ("" if there is no error member), what
\* error.details holds ("" if absent: the details member of the provider's
\* own error object, the text handleAxiosError made of a transport error,
\* or the object with the stack MCPService.executeTool builds) and
\* whether error.details carries a stack
McpResult(ok, code, stack, details) ==
  [success |-> ok, code |-> code, stack |-> stack, details |-> details]

NoResult == McpResult(FALSE, "", FALSE, "")

\* ChatMessage; the content of a user turn is text with the device context
\* appended, the content of an assistant turn is << >> for the empty
\* string and << n >> for the text of the n-th model response, the content
\* of a tool turn is the serialized result
Turn(role, text, ctx, content, calls, id, result) ==
  [role |-> role, text |-> text, ctx |-> ctx, content |-> content,
   tool_calls |-> calls, tool_call_id |-> id, result |-> result]

SystemTurn ==
  Turn("system", << "RESTOREPOINT_SYSTEM_PROMPT" >>, << >>, << >>, << >>, << >>, NoResult)

UserTurn(text, ctx) == Turn("user", text, ctx, << >>, << >>, << >>, NoResult)

AssistantTurn(content, calls) ==
  Turn("assistant", << >>, << >>, content, calls, << >>, NoResult)

ToolTurn_NoId(id, result) == Turn("tool", << >>, << >>, << >>, << >>, << >>, result)

ToolTurn(id, result) == Turn("tool", << >>, << >>, << >>, << >>, id, result)

ContinuePrompt ==
  [text |-> << "Based on the tool results, continue executing any necessary tools. If all required work is done, provide a summary." >>,
   ctx |-> << >>]

\* what the model asks for: the i-th call of its n-th response
ToolMenu ==
  << [name |-> "list_devices", arguments |-> "{}"],
     [name |-> "get_device", arguments |-> "{\"id\":1}"],
     [name |-> "create_backup", arguments |-> "{\"device\":1}"],
     [name |-> "list_devices", arguments |-> "{"] >>

ValidJSON == {"{}", "{\"id\":1}", "{\"device\":1}"}

ToolCall(n, i) ==
  LET m == ToolMenu[((n + i - 2) % Len(ToolMenu)) + 1]
  IN [id |-> << n, i >>, name |-> m.name, arguments |-> m.arguments]

\* ChatResponse number n with k tool calls
ModelResponse(n, k, withText) ==
  [content |-> IF withText THEN << n >> ELSE << >>,
   tool_calls |-> [i \in 1..k |-> ToolCall(n, i)]]

PriorAnswer == << -1 >>

ChatRequests ==
  { [message |-> << "hello" >>, conversationHistory |-> << >>],
    [message |-> << "list", "devices" >>, conversationHistory |-> << >>],
    [message |-> << "backup", "172.31.13.115" >>,
     conversationHistory |-> << UserTurn(<< "show", "devices" >>, << >>),
                                AssistantTurn(PriorAnswer, << >>) >>],
    [message |-> << "status", "\"Edge\"", "Core-1", "cisco" >>,
     conversationHistory |-> << >>],
    [message |-> << "list", "devices", "<a word of 501 characters>" >>,
     conversationHistory |-> << >>] }

\* message members of the bodies posted to /api/chat
RouteMessages ==
  { << "hello" >>, << "list", "devices" >>,
    << "list", "devices", "<a word of 501 characters>" >>, << "manage", "Core-1" >> }

FailingToolSets == { {}, {"get_device"} }

\* ------------------------------------------------------------------------
\* MCPService.executeTool
\* ------------------------------------------------------------------------
\* MCPHttpService.executeTool: JSON.parse and the POST are inside the try,
\* an exception is turned into a structured EXECUTION_ERROR answer
HttpExecuteTool_PostsUnparsed(call, prov, failing) ==
  IF prov = "down"
  THEN [success |-> FALSE, code |-> "EXECUTION_ERROR", details |-> "handleAxiosError",
        posted |-> TRUE]
  ELSE IF call.name \in failing
  THEN [success |-> FALSE, code |-> "", details |-> "provider", posted |-> TRUE]
  ELSE [success |-> TRUE, code |-> "", details |-> "", posted |-> TRUE]

\* posted: the POST /tools/execute was issued (JSON.parse comes before it)
HttpExecuteTool(call, prov, failing) ==
  IF call.arguments \notin ValidJSON \/ prov = "down"
  THEN [success |-> FALSE, code |-> "EXECUTION_ERROR", details |-> "handleAxiosError",
        posted |-> call.arguments \in ValidJSON]
  ELSE IF call.name \in failing
  THEN [success |-> FALSE, code |-> "", details |-> "provider", posted |-> TRUE]
  ELSE [success |-> TRUE, code |-> "", details |-> "", posted |-> TRUE]

\* MCPService.executeTool from the MCPService state (mInit, avail): the
\* McpResult and the availableTools left behind; isInitialized is TRUE
\* afterwards.  Every exception is caught, so the call never throws.
\* initContact: initialize() ran and contacted the provider; posted: the
\* POST /tools/execute was issued.
ExecuteTool(call, mInit, avail, prov, provTools, failing) ==
  LET i == IF mInit THEN [avail |-> avail, threw |-> FALSE]
           ELSE MCPInitialize(avail, prov, provTools)
      r == HttpExecuteTool(call, prov, failing)
  IN [avail |-> i.avail,
      threw |-> FALSE,
      initContact |-> ~mInit,
      posted |-> ~i.threw /\ r.posted,
      result |-> IF i.threw
                 THEN McpResult(FALSE, "EXECUTION_ERROR", TRUE, "toolName, arguments, stack")
                 ELSE IF r.success THEN McpResult(TRUE, "", FALSE, "")
                 ELSE McpResult(FALSE,
                                IF r.code = "" THEN "TOOL_EXECUTION_FAILED" ELSE r.code,
                                FALSE, r.details)]

ListDevicesCall ==
  [id |-> << 0, 0 >>, name |-> "list_devices", arguments |-> "{}"]

\* ------------------------------------------------------------------------
\* ZAIService.sendMessage up to the POST
\* ------------------------------------------------------------------------
\* ToolDiscoveryService.initialize run to completion on the cache object c
\* and the MCPService state m
DiscoveryInitialize(c, m) ==
  IF c.isInitialized THEN [c |-> c, m |-> m]
  ELSE IF ~syncToolsProceeds(c) THEN [c |-> initializeTail(c), m |-> m]
  ELSE LET r == GetAvailableTools(m.init, m.avail, provider, providerTools)
       IN [c |-> initializeTail(IF r.threw
                                THEN loadFallbackTools(syncToolsFail(c))
                                ELSE syncToolsSucceed(c, r.tools)),
           m |-> [init |-> TRUE, avail |-> r.avail]]

\* zai initialize() if needed, then getToolsForAI()
SendTools(zInit, c, m) ==
  LET a == IF zInit THEN [c |-> c, m |-> m] ELSE DiscoveryInitialize(c, m)
      b == DiscoveryInitialize(a.c, a.m)
      c2 == getToolsTail(b.c)
  IN [c |-> c2, m |-> b.m, tools |-> c2.tools]

SendMessageBody(message, history, dynamicTools) ==
  [messages |-> << SystemTurn >> \o history \o << UserTurn(message.text, message.ctx) >>,
   tools |-> dynamicTools]

HasToolCalls_MoreThanOne(response) == Len(response.tool_calls) > 1

\* aiResponse.tool_calls && aiResponse.tool_calls.length > 0
HasToolCalls(response) == Len(response.tool_calls) > 0

\* ------------------------------------------------------------------------
\* ChatService.processMessage
\* ------------------------------------------------------------------------
EnterProcessMessage_NoTopicCheck(rq) ==
  /\ request' = rq
  /\ IF HasIdentifiers(rq.message)
     THEN /\ rpc' = "resolving"
          /\ UNCHANGED << finalResponse, enhancedMessage >>
     ELSE /\ rpc' = "sending"
          /\ enhancedMessage' = [text |-> rq.message, ctx |-> << >>]
          /\ UNCHANGED finalResponse
  /\ UNCHANGED << inLoop, updatedHistory, toolsUsed, executionResults,
                  executionRound, toolCalls, idx, lastSent, modelCalls,
                  execPhases, responses, errorMessage, zaiInitialized,
                  failingTools, frames, cacheVars, mcpVars, providerVars, callerVars >>

EnterProcessMessage_AlwaysResolves(rq) ==
  /\ request' = rq
  /\ IF ~validateTopic(rq.message)
     THEN /\ rpc' = "done"
          /\ finalResponse' = TopicRefusal
     ELSE /\ rpc' = "resolving"
          /\ UNCHANGED finalResponse
  /\ UNCHANGED << enhancedMessage, inLoop, updatedHistory, toolsUsed,
                  executionResults, executionRound, toolCalls, idx, lastSent,
                  modelCalls, execPhases, responses, errorMessage,
                  zaiInitialized, failingTools, frames, cacheVars, mcpVars,
                  providerVars, callerVars >>

\* processMessage from its entry to its first await (or its return)
EnterProcessMessage(rq) ==
  /\ request' = rq
  /\ IF ~validateTopic(rq.message)
     THEN /\ rpc' = "done"
          /\ finalResponse' = TopicRefusal
          /\ UNCHANGED enhancedMessage
     ELSE IF HasIdentifiers(rq.message)
     THEN /\ rpc' = "resolving"
          /\ UNCHANGED << finalResponse, enhancedMessage >>
     ELSE /\ rpc' = "sending"
          /\ enhancedMessage' = [text |-> rq.message, ctx |-> << >>]
          /\ UNCHANGED finalResponse
  /\ UNCHANGED << inLoop, updatedHistory, toolsUsed, executionResults,
                  executionRound, toolCalls, idx, lastSent, modelCalls,
                  execPhases, responses, errorMessage, zaiInitialized,
                  failingTools, frames, cacheVars, mcpVars, providerVars, callerVars >>

\* a caller inside the backend invokes chatService.processMessage(rq)
StartRequest(rq) ==
  /\ rpc = "idle"
  /\ viaRoute' = FALSE
  /\ httpReply' = "none"
  /\ EnterProcessMessage(rq)

\* POST /api/chat with body {message}: validateMessage, then the handler up
\* to `await chatService.processMessage(...)`
PostChat(message) ==
  /\ rpc = "idle"
  /\ IF validateMessage(message) # "ok"
     THEN /\ httpReply' = "422 Validation failed"
          /\ UNCHANGED << viaRoute, zaiInitialized, failingTools, frames,
                          orchestratorVars, cacheVars, mcpVars, providerVars,
                          callerVars >>
     ELSE /\ viaRoute' = TRUE
          /\ httpReply' = "none"
          /\ EnterProcessMessage([message |-> message, conversationHistory |-> << >>])

\* a null entry of the array the provider lists: reading a member of it
\* throws a TypeError
NullEntry ==
  [ID |-> NULL, Name |-> "", Address |-> "", PluginName |-> "", AssetFields |-> << >>]

\* the arrays the provider may list
DeviceListings ==
  { Devices, << >>, << Devices[1], NullEntry >>,
    << Devices[2], Devices[1], Devices[2] >> }

ResolveOutcome_IgnoresSuccess(message, result, shape, listing) ==
  LET u == UnwrapDevices(shape, listing)
      threw == \E i \in 1..Len(u.allDevices) : u.allDevices[i] = NullEntry
      matched == IF u.found /\ ~threw THEN MatchDevices(message, u.allDevices)
                 ELSE << >>
  IN [threw |-> FALSE, matchedDevices |-> matched,
      deviceContext |-> MapSeq(matched, ContextLine)]

\* resolveDeviceIdentifiers from the return of its list_devices call: the
\* McpResult, its data of the given shape holding the given array.  The
\* filters run over the whole array for every candidate, so a null entry
\* makes them throw; the catch answers with the empty result.
ResolveOutcome(message, result, shape, listing) ==
  LET u == UnwrapDevices(shape, listing)
      threw == \E i \in 1..Len(u.allDevices) : u.allDevices[i] = NullEntry
      matched == IF result.success /\ u.found /\ ~threw
                 THEN MatchDevices(message, u.allDevices)
                 ELSE << >>
  IN [threw |-> FALSE, matchedDevices |-> matched,
      deviceContext |-> MapSeq(matched, ContextLine)]

\* the list_devices call of resolveDeviceIdentifiers returns
ResolveReturn ==
  /\ rpc = "resolving"
  /\ \E shape \in ListShapes, listing \in DeviceListings :
       LET x == ExecuteTool(ListDevicesCall, mcpInitialized, availableTools,
                            provider, providerTools, failingTools)
           o == ResolveOutcome(request.message, x.result, shape, listing)
       IN /\ enhancedMessage' = [text |-> request.message, ctx |-> o.deviceContext]
          /\ rpc' = IF o.threw THEN "failed" ELSE "sending"
          /\ mcpInitialized' = TRUE
          /\ availableTools' = x.avail
  /\ UNCHANGED << inLoop, request, updatedHistory, toolsUsed, executionResults,
                  finalResponse, executionRound, toolCalls, idx, lastSent,
                  modelCalls, execPhases, responses, errorMessage, zaiInitialized,
                  failingTools, frames, routeVars, cacheVars, providerVars, callerVars >>

\* zaiService.sendMessage: tool catalog read, then the POST is issued
SendPrepare ==
  /\ rpc = "sending"
  /\ LET s == SendTools(zaiInitialized, Cache,
                        [init |-> mcpInitialized, avail |-> availableTools])
     IN /\ SetCache(s.c)
        /\ mcpInitialized' = s.m.init
        /\ availableTools' = s.m.avail
        /\ lastSent' = IF inLoop
                       THEN SendMessageBody(ContinuePrompt, updatedHistory, s.tools)
                       ELSE SendMessageBody(enhancedMessage,
                                            request.conversationHistory, s.tools)
  /\ zaiInitialized' = TRUE
  /\ modelCalls' = modelCalls + 1
  /\ rpc' = "model"
  /\ UNCHANGED << inLoop, request, enhancedMessage, updatedHistory, toolsUsed,
                  executionResults, finalResponse, executionRound, toolCalls,
                  idx, execPhases, responses, errorMessage, failingTools, frames, routeVars, timerSync,
                  providerVars, callerVars >>

\* entry into a for-loop over tool_calls, up to its first await
BeginExec_FirstCallNotRecorded(calls) ==
  /\ toolCalls' = calls
  /\ idx' = 1
  /\ toolsUsed' = toolsUsed
  /\ execPhases' = execPhases + 1
  /\ rpc' = "exec"

BeginExec_StopsAfterFirstRound(calls) ==
  IF execPhases >= 1
  THEN /\ rpc' = "done"
       /\ UNCHANGED << toolCalls, idx, toolsUsed, execPhases >>
  ELSE /\ toolCalls' = calls
       /\ idx' = 1
       /\ toolsUsed' = Append(toolsUsed, calls[1].name)
       /\ execPhases' = execPhases + 1
       /\ rpc' = "exec"

BeginExec(calls) ==
  /\ toolCalls' = calls
  /\ idx' = 1
  /\ toolsUsed' = Append(toolsUsed, calls[1].name)
  /\ execPhases' = execPhases + 1
  /\ rpc' = "exec"

FinalText_AlwaysLast(content, previous) == content

\* nextAiResponse.content || finalResponse
FinalText(content, previous) == IF content # << >> THEN content ELSE previous

\* the POST returns a ChatResponse
ModelReturn ==
  /\ rpc = "model"
  /\ \E k \in 0..MaxCalls, withText \in BOOLEAN :
       /\ k > 0 => execPhases < MaxRounds
       /\ LET response == ModelResponse(modelCalls, k, withText)
          IN /\ responses' = Append(responses, k)
             /\ IF ~inLoop
                THEN /\ IF HasToolCalls(response)
                        THEN /\ updatedHistory' =
                                  request.conversationHistory
                                  \o << UserTurn(request.message, << >>),
                                        AssistantTurn(response.content, response.tool_calls) >>
                             /\ finalResponse' = response.content
                             /\ BeginExec(response.tool_calls)
                        ELSE /\ finalResponse' = response.content
                             /\ rpc' = "done"
                             /\ UNCHANGED << updatedHistory, toolCalls, idx,
                                             toolsUsed, execPhases >>
                ELSE /\ updatedHistory' =
                          Append(updatedHistory,
                                 AssistantTurn(response.content, response.tool_calls))
                     /\ IF HasToolCalls(response)
                        THEN /\ BeginExec(response.tool_calls)
                             /\ UNCHANGED finalResponse
                        ELSE /\ finalResponse' = FinalText(response.content, finalResponse)
                             /\ rpc' = "done"
                             /\ UNCHANGED << toolCalls, idx, toolsUsed, execPhases >>
  /\ UNCHANGED << inLoop, request, enhancedMessage, executionResults,
                  executionRound, lastSent, modelCalls, errorMessage,
                  zaiInitialized,
                  failingTools, frames, routeVars, cacheVars, mcpVars, providerVars, callerVars >>

ModelFail_ReturnsPartialResult ==
  /\ rpc = "model"
  /\ rpc' = "done"
  /\ \E e \in SendMessageErrors : errorMessage' = e
  /\ UNCHANGED << inLoop, request, enhancedMessage, updatedHistory, toolsUsed,
                  executionResults, finalResponse, executionRound, toolCalls,
                  idx, lastSent, modelCalls, execPhases, responses,
                  zaiInitialized, failingTools, frames, routeVars, cacheVars, mcpVars,
                  providerVars, callerVars >>

\* the POST fails or its answer has no message: sendMessage throws one of
\* its errors, processMessage rethrows it as "Chat processing failed: ..."
ModelFail ==
  /\ rpc = "model"
  /\ rpc' = "failed"
  /\ \E e \in SendMessageErrors : errorMessage' = e
  /\ UNCHANGED << inLoop, request, enhancedMessage, updatedHistory, toolsUsed,
                  executionResults, finalResponse, executionRound, toolCalls,
                  idx, lastSent, modelCalls, execPhases, responses,
                  zaiInitialized, failingTools, frames, routeVars, cacheVars, mcpVars,
                  providerVars, callerVars >>

\* `await mcpService.executeTool(toolCall)` of the for-loop returns
ExecReturn ==
  /\ rpc = "exec"
  /\ LET call == toolCalls[idx]
         x == ExecuteTool(call, mcpInitialized, availableTools, provider,
                          providerTools, failingTools)
     IN /\ mcpInitialized' = TRUE
        /\ availableTools' = x.avail
        /\ executionResults' =
             Append(executionResults,
                    [toolName |-> call.name, success |-> ~x.threw, result |-> x.result])
        /\ updatedHistory' = Append(updatedHistory, ToolTurn(call.id, x.result))
  /\ IF idx < Len(toolCalls)
     THEN /\ idx' = idx + 1
          /\ toolsUsed' = Append(toolsUsed, toolCalls[idx + 1].name)
          /\ UNCHANGED << rpc, inLoop, executionRound >>
     ELSE /\ rpc' = "sending"
          /\ inLoop' = TRUE
          /\ executionRound' = IF inLoop THEN executionRound + 1 ELSE executionRound
          /\ UNCHANGED << idx, toolsUsed >>
  /\ UNCHANGED << request, enhancedMessage, finalResponse, toolCalls, lastSent,
                  modelCalls, execPhases, responses, errorMessage, zaiInitialized,
                  failingTools, frames, routeVars, cacheVars, providerVars, callerVars >>

\* the chat route's answer to the outcome of processMessage
RouteReply(outcome, message) ==
  IF outcome = "done" THEN "200 success"
  ELSE IF message = "Invalid z.ai API key" THEN "500 Service configuration error"
  ELSE IF message = "z.ai API rate limit exceeded" THEN "429 Rate limit exceeded"
  ELSE "500 Processing failed"

\* the promise of processMessage is settled and its locals are gone; the
\* route handler, if it was the caller, sends its response
FinishRequest ==
  /\ rpc \in {"done", "failed"}
  /\ httpReply' = IF viaRoute THEN RouteReply(rpc, errorMessage) ELSE "none"
  /\ viaRoute' = FALSE
  /\ errorMessage' = ""
  /\ rpc' = "idle"
  /\ inLoop' = FALSE
  /\ request' = NoRequest
  /\ enhancedMessage' = NoMessage
  /\ updatedHistory' = << >>
  /\ toolsUsed' = << >>
  /\ executionResults' = << >>
  /\ finalResponse' = << >>
  /\ executionRound' = 1
  /\ toolCalls' = << >>
  /\ idx' = 0
  /\ lastSent' = NothingSent
  /\ modelCalls' = 0
  /\ execPhases' = 0
  /\ responses' = << >>
  /\ UNCHANGED << zaiInitialized, failingTools, frames, cacheVars, mcpVars,
                  providerVars, callerVars >>

ChatInit ==
  /\ CacheInit
  /\ zaiInitialized = FALSE
  /\ failingTools \in FailingToolSets
  /\ httpReply = "none"
  /\ frames = [s \in Slots |-> NoFrame]
  /\ NoRequestInProgress

\* the provider changes its reachability while no request is in progress
ProviderSwitchBetweenRequests ==
  /\ rpc = "idle"
  /\ ProviderSwitch

\* One request at a time against the cache, the provider client and the
\* provider.  The refresh timer and the clock are left out: a request is
\* taken to be shorter than the refresh interval.  Within a request a tool
\* execution fails because the provider is unreachable for the whole
\* request, because the provider answers success=false for the tool, or
\* because the arguments of the call are not valid JSON.
ChatNext ==
  \/ \E rq \in ChatRequests : StartRequest(rq)
  \/ \E message \in RouteMessages : PostChat(message)
  \/ ResolveReturn
  \/ SendPrepare
  \/ ModelReturn
  \/ ModelFail
  \/ ExecReturn
  \/ FinishRequest
  \/ ReadSyncComplete
  \/ ProviderSwitchBetweenRequests

ChatSpec == ChatInit /\ [][ChatNext]_vars

\* ------------------------------------------------------------------------
\* Two overlapping invocations of ChatService.processMessage
\* ------------------------------------------------------------------------
\* the requests of the two callers; neither message names a device, so
\* neither invocation enters the resolver
PairRequest(s) ==
  IF s = "a"
  THEN [message |-> << "list", "devices" >>, conversationHistory |-> << >>]
  ELSE [message |-> << "status" >>,
        conversationHistory |-> << UserTurn(<< "show", "devices" >>, << >>),
                                   AssistantTurn(PriorAnswer, << >>) >>]

\* numbers of tool calls in a response to one of the overlapping requests
PairCalls == {0, 2}

\* the POSTs of an invocation whose response may ask for tools
PairToolRounds == {1, 2}

\* the i-th call of the n-th response to invocation s
FrameToolCall(s, n, i) ==
  [ToolCall(IF s = "a" THEN n ELSE n + 2, i) EXCEPT !.id = << s, n, i >>]

\* ChatResponse number n to invocation s, with k tool calls
FrameResponse(s, n, k, withText) ==
  [content |-> IF withText THEN << s, n >> ELSE << >>,
   tool_calls |-> [i \in 1..k |-> FrameToolCall(s, n, i)]]

FirstHistory_PushesOntoCallerArray(history, message, response) ==
  LET u == history \o << UserTurn(message, << >>),
                         AssistantTurn(response.content, response.tool_calls) >>
  IN [updated |-> u, caller |-> u]

\* const updatedHistory = [...(request.conversationHistory || []), user,
\* assistant]: a new array, and the array of the caller as it is left
FirstHistory(history, message, response) ==
  [updated |-> history \o << UserTurn(message, << >>),
                             AssistantTurn(response.content, response.tool_calls) >>,
   caller |-> history]

\* entry into a for-loop over tool_calls, on the locals f
FrameBeginExec(f, calls) ==
  [f EXCEPT !.toolCalls = calls, !.idx = 1,
            !.toolsUsed = Append(@, calls[1].name), !.rpc = "exec"]

\* what a step of an invocation leaves alone besides the service singletons
FrameUnchanged ==
  UNCHANGED << failingTools, orchestratorVars, routeVars, providerVars,
               callerVars, timerSync >>

\* processMessage(PairRequest(s)) from its entry to its first await
FrameStart(s) ==
  /\ frames[s].rpc = "idle"
  /\ LET rq == PairRequest(s)
     IN /\ ~HasIdentifiers(rq.message)
        /\ frames' = [frames EXCEPT ![s] =
             IF ~validateTopic(rq.message)
             THEN [NoFrame EXCEPT !.request = rq, !.rpc = "done",
                                  !.finalResponse = TopicRefusal]
             ELSE [NoFrame EXCEPT !.request = rq, !.rpc = "sending"]]
  /\ UNCHANGED << zaiInitialized, cacheVars, mcpVars >>
  /\ FrameUnchanged

\* zaiService.sendMessage of invocation s: catalog read, then the POST
FrameSend(s) ==
  /\ frames[s].rpc = "sending"
  /\ LET f == frames[s]
         t == SendTools(zaiInitialized, Cache,
                        [init |-> mcpInitialized, avail |-> availableTools])
     IN /\ SetCache(t.c)
        /\ mcpInitialized' = t.m.init
        /\ availableTools' = t.m.avail
        /\ frames' = [frames EXCEPT ![s] =
             [f EXCEPT !.lastSent =
                         IF f.inLoop
                         THEN SendMessageBody(ContinuePrompt, f.updatedHistory, t.tools)
                         ELSE SendMessageBody([text |-> f.request.message, ctx |-> << >>],
                                              f.request.conversationHistory, t.tools),
                       !.modelCalls = @ + 1,
                       !.rpc = "model"]]
  /\ zaiInitialized' = TRUE
  /\ FrameUnchanged

\* the POST of invocation s returns a ChatResponse
FrameModelReturn(s) ==
  /\ frames[s].rpc = "model"
  /\ \E k \in PairCalls, withText \in BOOLEAN :
       /\ k > 0 => frames[s].modelCalls \in PairToolRounds
       /\ LET f == frames[s]
              response == FrameResponse(s, f.modelCalls, k, withText)
              h == FirstHistory(f.request.conversationHistory, f.request.message,
                                response)
              g == [f EXCEPT !.updatedHistory =
                               Append(@, AssistantTurn(response.content,
                                                       response.tool_calls))]
          IN frames' = [frames EXCEPT ![s] =
               IF ~f.inLoop
               THEN IF HasToolCalls(response)
                    THEN FrameBeginExec(
                           [f EXCEPT !.updatedHistory = h.updated,
                                     !.request.conversationHistory = h.caller,
                                     !.finalResponse = response.content],
                           response.tool_calls)
                    ELSE [f EXCEPT !.finalResponse = response.content, !.rpc = "done"]
               ELSE IF HasToolCalls(response)
                    THEN FrameBeginExec(g, response.tool_calls)
                    ELSE [g EXCEPT !.finalResponse = FinalText(response.content, @),
                                   !.rpc = "done"]]
  /\ UNCHANGED << zaiInitialized, cacheVars, mcpVars >>
  /\ FrameUnchanged

\* the POST of invocation s fails: processMessage throws
FrameModelFail(s) ==
  /\ frames[s].rpc = "model"
  /\ frames' = [frames EXCEPT ![s].rpc = "failed"]
  /\ UNCHANGED << zaiInitialized, cacheVars, mcpVars >>
  /\ FrameUnchanged

\* `await mcpService.executeTool(toolCall)` of invocation s returns
FrameExecReturn(s) ==
  /\ frames[s].rpc = "exec"
  /\ LET f == frames[s]
         call == f.toolCalls[f.idx]
         x == ExecuteTool(call, mcpInitialized, availableTools, provider,
                          providerTools, failingTools)
         g == [f EXCEPT !.executionResults =
                          Append(@, [toolName |-> call.name, success |-> ~x.threw,
                                     result |-> x.result]),
                        !.updatedHistory = Append(@, ToolTurn(call.id, x.result))]
     IN /\ mcpInitialized' = TRUE
        /\ availableTools' = x.avail
        /\ frames' = [frames EXCEPT ![s] =
             IF f.idx < Len(f.toolCalls)
             THEN [g EXCEPT !.idx = @ + 1,
                            !.toolsUsed = Append(@, f.toolCalls[f.idx + 1].name)]
             ELSE [g EXCEPT !.rpc = "sending", !.inLoop = TRUE]]
  /\ UNCHANGED << zaiInitialized, cacheVars >>
  /\ FrameUnchanged

\* the promise of invocation s is settled and its locals are gone
FrameFinish(s) ==
  /\ frames[s].rpc \in {"done", "failed"}
  /\ frames' = [frames EXCEPT ![s] = NoFrame]
  /\ UNCHANGED << zaiInitialized, cacheVars, mcpVars >>
  /\ FrameUnchanged

\* Two invocations interleaved at their awaits against the one cache, the
\* one provider client and the one model client of the process.  The
\* refresh timer and the clock are left out, and the provider keeps the
\* reachability it starts with.
PairNext ==
  \/ \E s \in Slots : FrameStart(s)
  \/ \E s \in Slots : FrameSend(s)
  \/ \E s \in Slots : FrameModelReturn(s)
  \/ \E s \in Slots : FrameModelFail(s)
  \/ \E s \in Slots : FrameExecReturn(s)
  \/ \E s \in Slots : FrameFinish(s)
  \/ ReadSyncComplete

PairSpec == Init /\ [][PairNext]_vars

\* ========================================================================
\* Chat orchestrator: properties
\* ========================================================================
\* C3: every tool call of a round is executed and recorded in call order,
\* and the executionResults entry of a call whose provider execution failed
\* (the McpResult says success=false) is marked success=false.
\* processMessage writes success: true into every entry it builds from a
\* returned McpResult, and executeTool returns failures instead of throwing.
C3_FailedCallsMarkedFailed ==
  /\ Len(executionResults) <= Len(toolsUsed)
  /\ \A i \in 1..Len(executionResults) :
       /\ executionResults[i].toolName = toolsUsed[i]
       /\ ~executionResults[i].result.success => ~executionResults[i].success

\* C4: once a response without tool calls has arrived the request is done;
\* it arrived as response n+1 after n responses with tool calls, n+1 model
\* calls were made and n execution phases were run; a first response
\* without tool calls means one model call and no tool execution.
C4_RoundsAndModelCalls ==
  LET L == Len(responses)
  IN /\ (L > 0 /\ responses[L] = 0)
          => /\ rpc = "done"
             /\ modelCalls = L
             /\ execPhases = L - 1
             /\ \A j \in 1..(L - 1) : responses[j] > 0
     /\ (rpc = "done" /\ modelCalls > 0) => (L > 0 /\ responses[L] = 0)
     /\ (L > 0 /\ responses[1] = 0)
          => /\ L = 1
             /\ toolsUsed = << >>
             /\ executionResults = << >>

\* two execution phases, three model calls, done
C4_Witness ==
  /\ rpc = "done"
  /\ responses = << 3, 1, 0 >>
  /\ execPhases = 2
  /\ modelCalls = 3
  /\ Len(executionResults) = 4

\* C10: while the model call that follows an execution phase is in flight,
\* every tool call of that phase has returned, and the conversation sent
\* ends with the assistant turn carrying the phase's tool calls, then one
\* tool turn per call with that call's id and result, in call order, then
\* the continuation prompt.
C10_ResultsFoldedBeforeNextModelCall ==
  (rpc = "model" /\ inLoop)
    => LET k == Len(toolCalls)
           msgs == lastSent.messages
           a == Len(msgs) - k - 1
           e == Len(executionResults) - k
       IN /\ idx = k
          /\ Len(executionResults) = Len(toolsUsed)
          /\ a >= 2 /\ e >= 0
          /\ msgs[a].role = "assistant"
          /\ msgs[a].tool_calls = toolCalls
          /\ \A i \in 1..k :
               /\ msgs[a + i].role = "tool"
               /\ msgs[a + i].tool_call_id = toolCalls[i].id
               /\ msgs[a + i].result = executionResults[e + i].result
               /\ executionResults[e + i].toolName = toolCalls[i].name
          /\ msgs[Len(msgs)] = UserTurn(ContinuePrompt.text, << >>)

\* the third model call of a request, after a phase of three calls
C10_Witness ==
  /\ rpc = "model"
  /\ inLoop
  /\ modelCalls = 3
  /\ Len(toolCalls) = 3
  /\ Len(executionResults) = 5

\* C11: a model call that ends without a response, the first one or a
\* later one, ends processMessage with a thrown error: no ChatResult is
\* returned, nothing is added to executionResults, toolsUsed or the
\* conversation, and the chat route does not answer with a success.
C11_ModelFailureFailsRequest ==
  [][/\ (rpc = "model" /\ rpc' # "model" /\ responses' = responses)
          => /\ rpc' = "failed"
             /\ errorMessage' \in SendMessageErrors
             /\ UNCHANGED << executionResults, toolsUsed, updatedHistory,
                             finalResponse >>
     /\ (rpc = "failed" /\ rpc' # "failed")
          => /\ rpc' = "idle"
             /\ viaRoute => httpReply' \in { "500 Service configuration error",
                                             "429 Rate limit exceeded",
                                             "500 Processing failed" }]_vars

\* the second model call failed after two tools had been executed
C11_Witness ==
  /\ rpc = "failed"
  /\ modelCalls = 2
  /\ Len(executionResults) = 2
  /\ Len(responses) = 1

\* C12 as claimed: a message that fails the topical or the length check is
\* answered by processMessage's canned refusal with empty toolsUsed.
C12_InvalidMessageGetsCannedRefusal ==
  [][/\ \A rq \in ChatRequests :
          (StartRequest(rq) /\ (~validateTopic(rq.message)
                                \/ validateMessage(rq.message) = "string.max"))
            => /\ rpc' = "done"
               /\ finalResponse' = TopicRefusal
               /\ toolsUsed' = << >>
     /\ \A m \in RouteMessages :
          (PostChat(m) /\ validateMessage(m) # "ok")
            => /\ rpc' = "done"
               /\ finalResponse' = TopicRefusal
               /\ toolsUsed' = << >>]_vars

\* C12 as the code has it: processMessage answers a message that fails its
\* topical check with the canned refusal, empty toolsUsed and no exception,
\* without resolver call, model call or tool execution; it has no length
\* check.  The chat route rejects a body that fails its schema (empty, over
\* 500 characters, off-topic) with 422 before processMessage is called.
C12_OffTopicRefusedInvalidBodyRejected ==
  [][/\ \A rq \in ChatRequests :
          (StartRequest(rq) /\ ~validateTopic(rq.message))
            => /\ rpc' = "done"
               /\ finalResponse' = TopicRefusal
               /\ toolsUsed' = << >>
               /\ executionResults' = << >>
               /\ modelCalls' = 0
               /\ UNCHANGED << cacheVars, mcpVars >>
     /\ \A m \in RouteMessages :
          (PostChat(m) /\ validateMessage(m) # "ok")
            => /\ httpReply' = "422 Validation failed"
               /\ UNCHANGED << orchestratorVars, cacheVars, mcpVars >>
     /\ (rpc = "done" /\ rpc' # "done") => rpc' = "idle"]_vars

C12_Witness ==
  /\ rpc = "done"
  /\ request.message = << "hello" >>
  /\ finalResponse = TopicRefusal
  /\ modelCalls = 0
  /\ ~mcpInitialized

\* C13: resolution never fails the request.  The list_devices call of the
\* resolver always ends with processMessage going on to the model call with
\* the original text, and the resolver's result is empty (no match, empty
\* context) whenever the execution was unsuccessful, the shape of the data
\* is not one it knows, or the matching threw on a null entry.
C13_ResolutionNeverFailsRequest ==
  [][/\ (rpc = "resolving" /\ rpc' # "resolving")
          => /\ rpc' = "sending"
             /\ enhancedMessage'.text = request.message
             /\ (provider = "down" \/ "list_devices" \in failingTools)
                   => enhancedMessage'.ctx = << >>
             /\ \A ok \in BOOLEAN, shape \in ListShapes, listing \in DeviceListings :
                  LET o == ResolveOutcome(request.message, McpResult(ok, "", FALSE, ""),
                                          shape, listing)
                  IN /\ ~o.threw
                     /\ (\/ ~ok
                         \/ shape \in {"object", "none"}
                         \/ \E i \in 1..Len(listing) : listing[i] = NullEntry)
                          => (o.matchedDevices = << >> /\ o.deviceContext = << >>)]_vars

\* the provider was unreachable for the listing and the model call is next
C13_Witness ==
  /\ rpc = "sending"
  /\ ~inLoop
  /\ provider = "down"
  /\ HasIdentifiers(request.message)
  /\ enhancedMessage = [text |-> request.message, ctx |-> << >>]

\* C14: processMessage calls the resolver's list_devices exactly when the
\* extractors find a candidate in the message, and then once: without a
\* candidate the provider client is not called and the context is empty;
\* with one, the single call is awaited and the model call follows.
C14_ListingFetchedOnceIffCandidates ==
  [][/\ (rpc = "idle" /\ rpc' # "idle")
          => /\ (rpc' = "resolving")
                  <=> (validateTopic(request'.message) /\ HasIdentifiers(request'.message))
             /\ UNCHANGED mcpVars
             /\ (rpc' = "sending") => enhancedMessage'.ctx = << >>
     /\ (rpc' = "resolving" /\ rpc # "resolving") => rpc = "idle"
     /\ (rpc = "resolving" /\ rpc' # "resolving")
          => (rpc' = "sending" /\ mcpInitialized')
     /\ (rpc # "resolving" /\ ~inLoop /\ rpc' = "model")
          => (enhancedMessage.ctx # << >> => HasIdentifiers(request.message))]_vars

\* a message without candidates goes to the model call with the provider
\* client still untouched
C14_Witness ==
  /\ rpc = "sending"
  /\ ~inLoop
  /\ request.message = << "list", "devices" >>
  /\ ~mcpInitialized
  /\ enhancedMessage = [text |-> request.message, ctx |-> << >>]

\* ========================================================================
\* Tool catalog cache: snapshots and their form
\* ========================================================================

\* C15: a snapshot is replaced as a whole.  Every change of the cache's
\* tool list puts in place the complete catalog just fetched (or the empty
\* list of shutdown, or the built-in catalog), every value a read returns
\* is the list the cache held or holds, and every tool of every such list
\* has parameters of type "object" whose properties all carry a type.
C15_SnapshotsWholeAndWellFormed ==
  [][/\ tools' # tools
          => \/ tools' = MapSeq(availableTools', transformMcpToolToAIFormat)
             \/ tools' = FallbackTools
             \/ (tools' = << >> /\ ~isInitialized')
     /\ returned' # returned => returned' \in {tools, tools'}
     /\ \A snapshot \in {tools', returned', FallbackTools} :
          \A i \in 1..Len(snapshot) :
            /\ DOMAIN snapshot[i].parameters = {"type", "properties", "required"}
            /\ snapshot[i].parameters.type = "object"
            /\ \A k \in 1..Len(snapshot[i].parameters.properties) :
                 LET prop == snapshot[i].parameters.properties[k]
                 IN prop.obj /\ prop.type # ""
            /\ DOMAIN snapshot[i].parameters.required
                 = 1..Len(snapshot[i].parameters.required)]_vars

\* a read that came while a refresh was outstanding returned the whole
\* catalog held, untyped properties of the provider's schemas typed
C15_Witness ==
  /\ timerSync = 1
  /\ tools = PublishedFor(CatalogB)
  /\ returned = tools
  /\ \E p \in Callers : op[p] = "none"

\* C16: whatever schema the provider gave for a tool, the published
\* parameters are {type: "object", properties, required}: no properties
\* where the schema is absent or has none, an empty required list where the
\* schema has none or one that is not an array, and type "string" on every
\* property that came without a type; everything else as the provider
\* gave it.
C16_NormalizationTotal ==
  [][(tools' # tools /\ tools' # FallbackTools /\ Len(tools') > 0)
       => /\ Len(tools') = Len(availableTools')
          /\ \A i \in 1..Len(tools') :
               LET schema == availableTools'[i].inputSchema
                   given == IF schema.present /\ schema.hasProps
                            THEN schema.props ELSE << >>
                   out == tools'[i].parameters
               IN /\ out.type = "object"
                  /\ out.required = IF schema.present /\ schema.reqIsArray
                                    THEN schema.required ELSE << >>
                  /\ Len(out.properties) = Len(given)
                  /\ \A k \in 1..Len(given) :
                       /\ out.properties[k].key = given[k].key
                       /\ out.properties[k].obj
                       /\ out.properties[k].type =
                            IF given[k].obj /\ given[k].type # ""
                            THEN given[k].type ELSE "string"]_vars

\* the published catalog came from schemas that were absent, had an untyped
\* and a non-object property, and had no required list
C16_Witness ==
  /\ availableTools = MapSeq(CatalogB, ToMCPTool)
  /\ tools = << CachedTool("list_devices", "List devices",
                           << Prop("limit", "string"), Prop("sortBy", "string") >>,
                           << >>),
                CachedTool("get_status", "Get status", << >>, << >>) >>

\* C17 (as claimed): no two tools of the snapshot the cache holds, or of a
\* snapshot a read returned, have the same name.
C17_ToolNamesUnique ==
  \A snapshot \in {tools, returned, FallbackTools} :
    \A i, j \in 1..Len(snapshot) :
      snapshot[i].name = snapshot[j].name => i = j

\* a completed sync of the cache: the awaited provider call of a caller's
\* syncTools, of the interval callback's or of a stale read's settles
SyncCompletes ==
  \/ \E p \in Callers : SyncToolsComplete(p)
  \/ TimerSyncComplete
  \/ ReadSyncComplete

\* C18 (as claimed): right after a completed sync the cache is not stale,
\* whatever list the sync published, and a read of an initialized cache
\* starts a refresh only if no sync ever completed or the last one is older
\* than the TTL.
C18_FreshAfterAnyCompletedSync ==
  [][/\ SyncCompletes => ~isCacheStale(Cache')
     /\ \A p \in Callers :
          (isInitialized /\ getToolsForAI(p) /\ readSync' > readSync)
            => (lastSync = NULL \/ lastSync > CACHE_TTL_MS)]_vars

\* C18 (amended): the cache is stale exactly when lastSync is null, the
\* snapshot is empty, or lastSync is older than the TTL.  A completed sync
\* sets lastSync to now, so the cache is fresh after it iff the list it
\* published is not empty; a read of an initialized cache starts a refresh
\* exactly when the cache is stale in that sense and no sync is outstanding.
C18_StaleByAgeOrEmptySnapshot ==
  [][/\ isCacheStale(Cache)
          <=> (lastSync = NULL \/ Len(tools) = 0 \/ lastSync > CACHE_TTL_MS)
     /\ SyncCompletes
          => /\ lastSync' = 0
             /\ isCacheStale(Cache') <=> Len(tools') = 0
     /\ \A p \in Callers :
          (isInitialized /\ getToolsForAI(p))
            => /\ readSync' \in {readSync, readSync + 1}
               /\ readSync' > readSync
                    <=> /\ ~syncInProgress
                        /\ (lastSync = NULL \/ Len(tools) = 0
                              \/ lastSync > CACHE_TTL_MS)]_vars

\* a sync completed less than the TTL ago published the empty list, and a
\* read has started a refresh
C18_Witness ==
  /\ isInitialized
  /\ lastSync \in 0..CACHE_TTL_MS
  /\ Len(tools) = 0
  /\ readSync = 1
  /\ returned = << >>

C20_FailedSyncRetriedThenFallback ==
  [][(SyncCompletes /\ ~mcpInitialized /\ provider # "up")
       => \/ \E p \in Callers : pc[p] = "fetch" /\ pc'[p] = "delay"
          \/ tools' = FallbackTools]_vars

C23_ForceSyncReturnsAfterSyncSettled ==
  [][\A p \in Callers :
       (op[p] = "force" /\ op'[p] = "none") => FetchesInFlight' = 0]_vars

\* C23 (amended): forceSync enters sync-with-retry whatever the age of the
\* snapshot.  If no sync is in flight it issues its own provider call and
\* returns when that has settled, with the fetched list installed and no
\* sync in flight; if one is in flight its syncTools call does nothing and
\* forceSync returns without waiting, leaving the cache as it is and the
\* other sync outstanding.
C23_ForceSyncRunsOrDefers ==
  [][\A p \in Callers :
       /\ pc[p] = "idle"
            => ENABLED (forceSync(p) /\ op'[p] = "force"
                          /\ pc'[p] = IF syncInProgress THEN "joined" ELSE "fetch")
       /\ (op[p] = "force" /\ op'[p] = "none" /\ pc[p] = "fetch")
            => /\ ~syncInProgress'
               /\ FetchesInFlight' = 0
               /\ lastSync' = 0
               /\ tools' = MapSeq(availableTools', transformMcpToolToAIFormat)
       /\ (op[p] = "force" /\ op'[p] = "none" /\ pc[p] = "joined")
            => /\ UNCHANGED << cacheVars, mcpVars >>
               /\ FetchesInFlight' = FetchesInFlight]_vars

\* a forced sync on a fresh snapshot found another forced sync in flight
\* and is about to return
C23_Witness ==
  \E p, q \in Callers :
    /\ op[p] = "force" /\ pc[p] = "joined"
    /\ op[q] = "force" /\ pc[q] = "fetch"
    /\ ~isCacheStale(Cache)

\* ========================================================================
\* Chat orchestrator: rounds, answer and records
\* ========================================================================

\* C24: the loop has no round limit.  At whatever round a model response
\* arrives, one with tool calls starts the next execution phase and never
\* ends the request; the request ends only at a model response without tool
\* calls or at a failed model call; and after every execution phase the
\* model is called again.
C24_LoopEndsOnlyOnPlainResponseOrFailure ==
  [][/\ (rpc = "model" /\ execPhases < MaxRounds)
          => ENABLED (ModelReturn /\ rpc' = "exec" /\ execPhases' = execPhases + 1)
     /\ (rpc = "model" /\ responses' # responses
           /\ responses'[Len(responses')] > 0)
          => (rpc' = "exec" /\ execPhases' = execPhases + 1)
     /\ (rpc # "done" /\ rpc' = "done" /\ modelCalls > 0)
          => (rpc = "model" /\ responses'[Len(responses')] = 0)
     /\ (rpc # "failed" /\ rpc' = "failed") => rpc = "model"
     /\ (rpc = "exec" /\ rpc' # "exec") => (rpc' = "sending" /\ inLoop')]_vars

\* every response so far carried tool calls and the last execution phase
\* the rounds bound of the model admits is running
C24_Witness ==
  /\ rpc = "exec"
  /\ execPhases = MaxRounds
  /\ Len(responses) = MaxRounds
  /\ \A j \in 1..Len(responses) : responses[j] > 0
  /\ executionRound = MaxRounds - 1

\* C25 (as claimed): the text a request ends with is the text of the model
\* response that ended it, the empty text included.
C25_AnswerIsTextOfLastResponse ==
  [][(rpc = "model" /\ rpc' = "done")
       => /\ finalResponse' \in { << modelCalls >>, << >> }
          /\ inLoop => finalResponse'
                         = updatedHistory'[Len(updatedHistory')].content]_vars

\* C25 (amended): a request whose first response has no tool calls ends
\* with that response's text, empty or not.  A request that ran tool calls
\* ends with the text of the response that ended the loop if that text is
\* not empty, and otherwise with the text of the first response of the
\* request (the one that carried the first tool calls).
C25_AnswerIsLastTextOrFirstText ==
  [][(rpc = "model" /\ rpc' = "done")
       => IF ~inLoop
          THEN /\ modelCalls = 1
               /\ finalResponse' \in { << 1 >>, << >> }
               /\ lastSent.messages[Len(lastSent.messages)].text = request.message
          ELSE LET last == updatedHistory'[Len(updatedHistory')]
                   first == updatedHistory[Len(request.conversationHistory) + 2]
               IN /\ last.role = "assistant" /\ first.role = "assistant"
                  /\ Len(last.tool_calls) = 0 /\ Len(first.tool_calls) > 0
                  /\ first.content \in { << 1 >>, << >> }
                  /\ last.content \in { << modelCalls >>, << >> }
                  /\ finalResponse' = IF last.content # << >>
                                      THEN last.content ELSE first.content]_vars

\* the third response ended the loop with empty text and the request ends
\* with the text of the first response
C25_Witness ==
  /\ rpc = "done"
  /\ inLoop
  /\ modelCalls = 3
  /\ updatedHistory[Len(updatedHistory)].content = << >>
  /\ finalResponse = << 1 >>

\* C26 (as claimed): no entry of executionResults carries a stack trace or
\* the details of the provider's error object; a failed execution is
\* recorded with its error code and message only.
C26_ResultsCarryNoInternals ==
  \A i \in 1..Len(executionResults) :
    /\ ~executionResults[i].result.stack
    /\ executionResults[i].result.details \notin {"provider", "toolName, arguments, stack"}

\* C27: when a request that made model calls is done, toolsUsed is the list
\* of the names of all tool calls of all its model responses, response by
\* response and in the order of each response, failed calls included, and
\* executionResults has one entry for each of them at the same position.
C27_RecordsCoverEveryRequestedCall ==
  (rpc = "done" /\ modelCalls > 0)
    => LET requested ==
             Flatten([j \in 1..Len(responses) |->
                        [i \in 1..responses[j] |-> ToolCall(j, i).name]])
       IN /\ toolsUsed = requested
          /\ Len(executionResults) = Len(toolsUsed)
          /\ \A i \in 1..Len(toolsUsed) :
               executionResults[i].toolName = toolsUsed[i]

\* done after two rounds of tool calls, one of which the provider failed
\* and one of which had arguments that do not parse
C27_Witness ==
  /\ rpc = "done"
  /\ responses = << 3, 3, 0 >>
  /\ Len(toolsUsed) = 6
  /\ provider = "up"
  /\ \E i \in 1..Len(executionResults) :
       executionResults[i].result.details = "provider"
  /\ \E i \in 1..Len(executionResults) :
       executionResults[i].result.code = "EXECUTION_ERROR"

\* C28: the devices the resolver returns have pairwise different IDs, they
\* are exactly the devices matched by an address, a name or a keyword of
\* the message, each kept as it was matched first, and they are ordered by
\* their first match: address matches before name matches before keyword
\* matches, and in listing order within the matches of one candidate.
C28_MatchesUniqueInFirstMatchOrder ==
  [][(rpc = "resolving" /\ rpc' # "resolving")
       => /\ \A i, j \in 1..Len(enhancedMessage'.ctx) :
               enhancedMessage'.ctx[i].ID = enhancedMessage'.ctx[j].ID => i = j
          /\ \A listing \in DeviceListings :
               (\A n \in 1..Len(listing) : listing[n] # NullEntry)
                 => LET m == request.message
                        raw == FlatMap(extractIPAddresses(m),
                                       LAMBDA ip : MatchIP(listing, ip))
                               \o FlatMap(extractDeviceNames(m),
                                          LAMBDA nm : MatchName(listing, nm))
                               \o FlatMap(extractKeywords(m),
                                          LAMBDA k : MatchKeyword(listing, k))
                        out == MatchDevices(m, listing)
                        first(id) == CHOOSE a \in 1..Len(raw) :
                                       /\ raw[a].ID = id
                                       /\ \A b \in 1..(a - 1) : raw[b].ID # id
                    IN /\ \A i, j \in 1..Len(out) : out[i].ID = out[j].ID => i = j
                       /\ {out[i].ID : i \in 1..Len(out)}
                            = {raw[a].ID : a \in 1..Len(raw)}
                       /\ \A i \in 1..Len(out) : out[i] = raw[first(out[i].ID)]
                       /\ \A i, j \in 1..Len(out) :
                            i < j => first(out[i].ID) < first(out[j].ID)]_vars

\* the device named in quotes was matched before the device matched by a
\* second name and again by a keyword: two entries, in that order
C28_Witness ==
  /\ rpc = "sending"
  /\ ~inLoop
  /\ request.message = << "status", "\"Edge\"", "Core-1", "cisco" >>
  /\ enhancedMessage.ctx = << ContextLine(Devices[2]), ContextLine(Devices[1]) >>

\* C30 (as claimed): the status is "syncing" exactly when a provider call
\* of a sync is outstanding and otherwise "stale" exactly when the cache is
\* stale; its toolCount is the size of the snapshot; and its lastSync is
\* the time of the last completed sync: it is null until a sync has
\* completed and is set to now only by the completion of a sync.
C30_StatusReflectsSyncs ==
  [][LET before == getServiceStatus(Cache)
         after == getServiceStatus(Cache')
     IN /\ after.syncStatus = "syncing" <=> FetchesInFlight' > 0
        /\ FetchesInFlight' = 0
             => (after.syncStatus = "stale" <=> isCacheStale(Cache'))
        /\ after.toolCount = Len(tools')
        /\ (after.lastSync = 0 /\ before.lastSync # 0) => SyncCompletes]_vars

\* ========================================================================
\* Overlapping requests: properties
\* ========================================================================
\* the tool calls the model asked invocation s for, in the order of the
\* assistant turns of its conversation
CallsAskedOf(f) ==
  Flatten(MapSeq(SelectSeq(f.updatedHistory, LAMBDA t : t.role = "assistant"),
                 LAMBDA t : t.tool_calls))

ToolTurnsOf(f) == SelectSeq(f.updatedHistory, LAMBDA t : t.role = "tool")

\* the conversation and the records of invocation s hold its own request,
\* its own responses and its own calls, and nothing else
FrameHoldsOnlyItsOwn(s) ==
  LET f == frames[s]
      rq == PairRequest(s)
      own == rq.conversationHistory \o << UserTurn(rq.message, << >>) >>
      asked == CallsAskedOf(f)
      turns == ToolTurnsOf(f)
  IN /\ f.rpc # "idle" => f.request = rq
     /\ f.updatedHistory # << >> =>
          /\ Len(f.updatedHistory) > Len(own)
          /\ SubSeq(f.updatedHistory, 1, Len(own)) = own
          /\ \A i \in (Len(own) + 1)..Len(f.updatedHistory) :
               LET t == f.updatedHistory[i]
               IN \/ /\ t.role = "assistant"
                     /\ t.content # << >> => t.content[1] = s
                  \/ t.role = "tool"
     /\ \A j \in 1..Len(asked) : asked[j].id[1] = s
     /\ Len(f.toolsUsed) <= Len(asked)
     /\ \A j \in 1..Len(f.toolsUsed) : f.toolsUsed[j] = asked[j].name
     /\ Len(f.executionResults) = Len(turns)
     /\ Len(f.executionResults) <= Len(f.toolsUsed)
     /\ \A j \in 1..Len(turns) :
          /\ turns[j].tool_call_id = asked[j].id
          /\ f.executionResults[j].toolName = asked[j].name
          /\ f.executionResults[j].result = turns[j].result
     /\ f.lastSent # NothingSent =>
          \A i \in 1..Len(f.lastSent.messages) :
            LET t == f.lastSent.messages[i]
            IN \/ t = SystemTurn
               \/ t = UserTurn(ContinuePrompt.text, ContinuePrompt.ctx)
               \/ \E j \in 1..Len(own) : t = own[j]
               \/ \E j \in 1..Len(f.updatedHistory) : t = f.updatedHistory[j]

\* a step of one invocation leaves the locals of the other alone and
\* never changes the request its caller passed in
FrameStepIsLocal ==
  /\ \A s, t \in Slots :
       (s # t /\ frames'[s] # frames[s]) => frames'[t] = frames[t]
  /\ \A s \in Slots :
       (frames[s].rpc # "idle" /\ frames'[s].rpc # "idle")
         => frames'[s].request = frames[s].request

\* C29 as stated: two requests processed concurrently share no mutable
\* state other than the tool catalog (a step of an invocation changes its
\* own locals and the tool cache, nothing else), the conversation,
\* toolsUsed and executionResults of an invocation hold only its own turns
\* and calls, and the conversationHistory of the caller is never modified.
C29_RequestsShareOnlyToolCatalog ==
  [][/\ FrameStepIsLocal
     /\ \A s \in Slots : frames'[s] # frames[s] => FrameHoldsOnlyItsOwn(s)'
     /\ frames' # frames => UNCHANGED << zaiInitialized, mcpVars >>]_vars

\* C29 (amended): besides the tool catalog the invocations share the
\* provider client (its initialized flag and its own tool list) and the
\* initialized flag of the model client, and nothing else: under every
\* interleaving a step of an invocation changes only its own locals, the
\* tool cache and those two clients; the conversation, toolsUsed and
\* executionResults of an invocation hold only its own turns and calls,
\* and the conversationHistory of the caller is never modified.
C29_RequestsShareOnlyServiceSingletons ==
  [][/\ FrameStepIsLocal
     /\ \A s \in Slots : frames'[s] # frames[s] => FrameHoldsOnlyItsOwn(s)'
     /\ frames' # frames =>
          UNCHANGED << orchestratorVars, routeVars, failingTools, providerVars,
                       callerVars >>]_vars

\* both invocations are between tool executions of their second round,
\* each with records of its own
C29_Witness ==
  /\ frames["a"].rpc = "exec" /\ frames["b"].rpc = "exec"
  /\ frames["a"].inLoop /\ frames["b"].inLoop
  /\ Len(frames["a"].executionResults) = 3
  /\ Len(frames["b"].executionResults) = 3
  /\ frames["b"].request.conversationHistory # << >>
  /\ mcpInitialized /\ zaiInitialized

C32_NoReturnBeforeFirstSync ==
  [][/\ \A p \in Callers :
          (op[p] \in {"init", "get"} /\ op'[p] = "none") => mcpInitialized'
     /\ (isInitialized' /\ lastSync' # NULL) => mcpInitialized']_vars

\* C33 (as claimed): shutdown() is final.  An initialize() that was in
\* flight when shutdown() ran, with no initialize() call since, completes
\* and leaves the snapshot empty, lastSync null, the cache uninitialized
\* and no timer running.
C33_ShutdownIsFinal ==
  [][\A p \in Callers :
       (shutDown /\ op[p] = "init" /\ op'[p] = "none")
         => /\ tools' = << >>
            /\ lastSync' = NULL
            /\ ~isInitialized'
            /\ ~syncInterval']_vars

\* the snapshot is degraded: empty, the built-in fallback catalog of the
\* cache, or the default list the provider client substitutes when the
\* tool listing of the provider fails
DegradedCatalog ==
  \/ tools = << >>
  \/ tools = FallbackTools
  \/ tools = MapSeq(MCPFallbackTools, transformMcpToolToAIFormat)

\* C34 (as claimed): a degraded catalog does not outlast the outage.
\* Whenever the cache holds a degraded catalog while its refresh timer is
\* running, then eventually the live catalog of the provider is published,
\* unless the provider is unreachable again or the timer has been stopped.
C34_DegradedCatalogRecovers ==
  (DegradedCatalog /\ syncInterval)
    ~> \/ tools = PublishedFor(providerTools)
       \/ provider # "up"
       \/ ~syncInterval

\* ========================================================================
\* Chat orchestrator: device context, malformed arguments, address matches
\* ========================================================================
\* C35 (as claimed): when the resolver produced a context block, every
\* body posted to the model for the request holds the user turn of the
\* request with the context block appended, in the first call and in the
\* calls of the rounds that follow.
C35_ContextInEveryModelCall ==
  (lastSent # NothingSent /\ enhancedMessage.ctx # << >>)
    => \E i \in 1..Len(lastSent.messages) :
         lastSent.messages[i] = UserTurn(request.message, enhancedMessage.ctx)

OnlyAddressCandidates(message) ==
  /\ Len(extractIPAddresses(message)) # 0
  /\ Len(extractDeviceNames(message)) = 0
  /\ Len(extractKeywords(message)) = 0

\* device d has an address, and it equals, contains or is contained in
\* one of the tokens
AddressMatches(d, ips) ==
  /\ d.Address # ""
  /\ \E j \in 1..Len(ips) :
       \/ d.Address = ips[j]
       \/ <<d.Address, ips[j]>> \in ProperSubstrings
       \/ <<ips[j], d.Address>> \in ProperSubstrings

\* C37 (as claimed): for a message whose only candidates are IPv4 tokens
\* the match set is exactly the listed devices whose non-empty address
\* equals, contains or is contained in one of the tokens; a device with an
\* empty or missing address is not in it.
C37_AddressMatchSetExact ==
  (rpc = "resolving" /\ OnlyAddressCandidates(request.message))
    => \A listing \in DeviceListings :
         (\A i \in 1..Len(listing) : listing[i] # NullEntry)
           => LET ips == extractIPAddresses(request.message)
                  matched == MatchDevices(request.message, listing)
              IN /\ \A i \in 1..Len(matched) : AddressMatches(matched[i], ips)
                 /\ \A i \in 1..Len(listing) :
                      AddressMatches(listing[i], ips)
                        => \E j \in 1..Len(matched) : matched[j] = listing[i]

\* ========================================================================
\* Tool catalog cache: the in-flight flag and the refresh timer
\* ========================================================================
\* C38: syncInProgress is set exactly while a provider call started by a
\* sync of the cache is outstanding, and both ways out of syncTools (the
\* try-body completing, and the catch with the finally) clear it, so that
\* with no call outstanding a new sync always proceeds.
C38_FlagTracksOutstandingFetch ==
  /\ syncInProgress <=> (FetchesInFlight = 1)
  /\ ~syncInProgress => syncToolsProceeds(Cache)
  /\ LET c == [Cache EXCEPT !.syncInProgress = TRUE]
     IN /\ ~syncToolsFail(c).syncInProgress
        /\ \A cat \in ProviderCatalogs :
             ~syncToolsSucceed(c, MapSeq(cat, ToMCPTool)).syncInProgress

\* after a sync that could not reach the provider has ended, the interval
\* callback has started the next one
C38_Witness ==
  /\ provider = "down"
  /\ mcpInitialized
  /\ tools = << >>
  /\ lastSync # NULL
  /\ timerSync = 1
  /\ syncInProgress

\* C39: never more than one interval timer of the cache is live, whatever
\* the order and the overlap of initialize(), shutdown() and later
\* initializations; the handle the cache holds is that of the live timer.
C39_AtMostOneTimer ==
  /\ liveTimers <= 1
  /\ syncInterval <=> (liveTimers = 1)

\* an initialize() that found a sync outstanding has returned and started
\* the timer while the initialize() that owns the sync is still in flight
\* and will start the timer again
C39_Witness ==
  /\ liveTimers = 1
  /\ isInitialized
  /\ \E p \in Callers : op[p] = "init" /\ pc[p] = "fetch"

====
